---- MODULE Spec2Model ----
(***************************************************************************)
(* A model of the WebSocket runtime of packages/next/src/server/websocket. *)
(*                                                                         *)
(* One module, several specifications over the same variables:             *)
(*   SpecBreaker  RouteCircuitBreaker under a discrete clock               *)
(*   SpecRate     WebSocketRateLimiter / RouteRateLimiterManager           *)
(*   SpecPool     WebSocketConnectionPool with its socket observers        *)
(*   Spec         setupWebSocketServer, its upgrade handler, the           *)
(*                per-connection lifecycle and the host server's close     *)
(*   SpecLife     the actions of Spec for the connections of one route     *)
(*                while the host server stays up                           *)
(*   SpecGraceful GracefulWebSocketHandler.closeWebSocketGracefully called *)
(*                on sockets in any state, under the clock                 *)
(*   SpecHost     the host server closing and listening again around the   *)
(*                connections of one route                                 *)
(*   SpecResolve  resolvePathToRoute over bounded route tables and paths    *)
(*   SpecConfig   loadWebSocketConfig over file configs and environments     *)
(*   SpecBroadcast pool.broadcast on a pool that clients join and leave     *)
(*   SpecMemory   the memory manager: registration, cleanups, the cooldown     *)
(*   SpecHealth   the global pool reporting to an initialised health monitor   *)
(*   SpecDedupe   upgrade events on raw sockets already in flight              *)
(*   SpecRooms    upgrades to two request paths of one parameterised route     *)
(*   SpecRecovery getRecoveryStrategy called on thrown values                  *)
(*   SpecBuffer   MessageBuffer: add, flush, the flush timer, destroy        *)
(*   SpecBufferFair SpecBuffer with the armed flush timer bound to fire    *)
(*   SpecAdmit    admission to the pool under a configuration that has a   *)
(*                per-route maxConnections override                        *)
(* A specification leaves the variables of the parts it does not run       *)
(* unchanged.                                                              *)
(***************************************************************************)
EXTENDS Integers, Sequences, FiniteSets, TLC

\* ------------------------------------------------------------------ bounds
\* The clock runs from 1 (Date.now() is never 0) to MaxTime.
MaxTime == 6
\* CircuitBreakerConfig, scaled down from 5 / 60000 / 300000 / 3.
FailureThreshold == 2
ResetTimeout == 2
MonitoringWindow == 4
SuccessThreshold == 2
\* Cap on the length of the breaker's failure window.
MaxWindowLen == 3
\* RateLimitConfig of the rate-limited routes, scaled down.
WindowMs == 2
MaxRequests == 2
\* The clock of the rate-limiter specification stops at RateMaxTime.
RateMaxTime == 3

\* Rate-limited routes and client identities (the keys generateKey derives);
\* RlKeys are the (route, client) pairs that make requests.
RlRoutes == {"/api/chat", "/api/room"}
Clients == {"1.2.3.4", "5.6.7.8"}
RlKeys == {<<"/api/chat", "1.2.3.4">>, <<"/api/chat", "5.6.7.8">>, <<"/api/room", "1.2.3.4">>}
\* The routes of WebSocketConfig.routes that carry a rateLimit rule.
LimitedRoutes == RlRoutes \cup {"/api/feed"}
\* rateLimit.maxRequests of the route /api/feed.
FeedMaxRequests == 1

\* MemoryThresholds.maximum, in percent of the heap.
MemMaximum == 98
\* heap usage, in percent, as a handshake can find it
MemLevels == {MemMaximum - 1, MemMaximum, MemMaximum + 1}

\* WebSocketConfig.maxConnections, scaled down from 1000.
MaxConnections == 1
\* Raw sockets that ask for an upgrade; a connection id is generated once per
\* socket, so the socket's number stands for its connection id too.
NumSockets == 2
\* Connection ids; the first NumSockets of them belong to the raw sockets.
NumIds == 3
\* Calls of setupWebSocketServer, each creating at most one WebSocketServer.
MaxSetups == 2
\* GracefulCloseOptions.timeout, scaled down from 5000.
CloseTimeout == 2
\* A configuration with a route override: WebSocketConfig.maxConnections and
\* routes['/api/feed'].maxConnections, scaled down.
ConfigMaxConnections == 2
FeedMaxConnections == 1
\* Longest route table, and how often one resolution is repeated.
MaxTableLen == 3
MaxResolveCalls == 2
\* Cap on performanceMetrics.messageRate between two resets.
MaxMessageRate == 2
\* Largest MessageBuffer.maxSize, scaled down from 100.
MaxBufferSize == 3
\* Calls of getRecoveryStrategy made with one error.
MaxRecoveryCalls == 2
\* Upgrade events delivered in one behaviour.
MaxUpgradeEvents == 3
\* MemoryThresholds.warning, in percent of the heap.
MemWarning == 90
\* MemoryThresholds.critical, in percent of the heap.
MemCritical == 95
\* cleanupCooldown in clock ticks, scaled down from 30000 ms.
CleanupCooldown == 2
\* Last clock value of the memory manager's behaviours.
MemMaxTime == 3
\* executeCleanup calls made in one behaviour.
MaxCleanupRuns == 2

Sockets == 1..NumSockets
ConnIds == 1..NumIds
Gens == 1..MaxSetups

VARIABLES
  now,                              \* Date.now()
  brState,                          \* RouteCircuitBreaker.state
  currentFailures,                  \* RouteCircuitBreaker.currentFailures
  consecutiveSuccessesInHalfOpen,   \* RouteCircuitBreaker.consecutiveSuccessesInHalfOpen
  lastFailureTime,                  \* 0 stands for null
  lastSuccessTime,                  \* 0 stands for null
  failureWindow,                    \* RouteCircuitBreaker.failureWindow
  brRet,                            \* the last breaker call: what it was, what it returned
  requests,                         \* RouteRateLimiterManager.limiters[route].requests[key]
  admitted,                         \* history: the times of the admitted requests
  rlRet,                            \* the last rate check and its verdict
  wsState,                          \* WebSocket.readyState of the client socket of each id
  pool,                             \* WebSocketConnectionPool.connections / connectionMetadata, per pool object
  poolObs,                          \* the observers setupConnectionHandlers attached: <<pool, id>>
  poolTimer,                        \* WebSocketConnectionPool.cleanupInterval is armed
  poolRet,                          \* the last call made on the pool by itself and what it returned
  up,                               \* per raw socket: where its handleUpgrade call stands and what it attached
  cache,                            \* connectionHandlerCache: the pathnames that have an entry
  cacheFn,                          \* connectionHandlerCache: per pathname the cached handler,
                                    \* named by the upgrade whose factory call returned it (0: none)
  factoryCalls,                     \* per pathname, how often its SOCKET export was invoked
  factoryFailed,                    \* pathnames whose SOCKET export failed since the cache was last cleared
  cleanedUp,                        \* ConnectionTracker.cleanedUpConnections (each entry has a 30 s timer)
  srv,                              \* host server, serverListenerMap, the global WebSocketServer handle
  wsServer,                         \* state of each WebSocketServer that setup created
  timers,                           \* intervals of the pools, the tracker and the memory manager
  gc,                               \* per client socket: its closeWebSocketGracefully call
  health,                           \* globalHealthMonitor: whether it exists, metrics.errorsOccurred
  rt,                              \* a route table, a request path and what resolvePathToRoute returned
  cfg,                           \* file config, environment and what loadWebSocketConfig returned
  bc,                            \* the last pool.broadcast call, what it sent, performanceMetrics.messageRate
  mb,                            \* a MessageBuffer: maxSize, buffer, flushTimeout, and its last operation
  rs,                            \* a getRecoveryStrategy call: the error, the calls made, the last result
  ev,                            \* the last upgrade event delivered to handleUpgrade, and how many were
  mem,                           \* the memory manager: strategies, lastCleanup, the executeCleanup calls
  hm                              \* the health monitor's connection records

timeVars == <<now>>
brVars == <<brState, currentFailures, consecutiveSuccessesInHalfOpen,
            lastFailureTime, lastSuccessTime, failureWindow, brRet>>

rlVars == <<requests, admitted, rlRet>>
poolVars == <<wsState, pool, poolObs, poolTimer, poolRet>>
upVars == <<up, cache, cacheFn, factoryCalls, factoryFailed, cleanedUp, srv, wsServer, timers>>
gcVars == <<gc>>
healthVars == <<health>>
fnVars == <<rt, cfg, bc, mb, rs, ev, mem, hm>>

\* ------------------------------------------------------------- helpers
SeqFilterGT(s, cutoff) == SelectSeq(s, LAMBDA t : t > cutoff)
Max(a, b) == IF a >= b THEN a ELSE b

\* ----------------------------------------------------------------- clock
Tick ==
  /\ now < MaxTime
  /\ now' = now + 1

\* ------------------------------------------------------- circuit breaker
CLOSED == "closed"
OPEN == "open"
HALF_OPEN == "half-open"

\* cleanupOldFailures: keeps the failures newer than now - monitoringWindow.
CleanupOldFailures(w, t) == SeqFilterGT(w, t - MonitoringWindow)

\* shouldAttemptReset with the comparison off by one tick
ShouldAttemptResetEarly(last, t) ==
  IF last = 0 THEN FALSE ELSE t - last >= ResetTimeout - 1

\* shouldAttemptReset
ShouldAttemptReset(last, t) ==
  IF last = 0 THEN FALSE ELSE t - last >= ResetTimeout

\* canExecute's verdict in state OPEN
OpenVerdict(last, t) == ShouldAttemptReset(last, t)

\* recordFailure's threshold test, strict
ThresholdReachedStrict(n) == n > FailureThreshold

\* recordFailure's threshold test in state CLOSED
ThresholdReached(n) == n >= FailureThreshold

\* recordFailure's switch, forgiving a failure in HALF_OPEN after a success
StateAfterFailureLenient(state, n, succ) ==
  CASE state = CLOSED -> IF ThresholdReached(n) THEN OPEN ELSE CLOSED
    [] state = HALF_OPEN -> IF succ > 0 THEN HALF_OPEN ELSE OPEN
    [] OTHER -> state

\* recordFailure's switch over the state: n failures are in the window, succ
\* successes were counted in HALF_OPEN
StateAfterFailure(state, n, succ) ==
  CASE state = CLOSED -> IF ThresholdReached(n) THEN OPEN ELSE CLOSED
    [] state = HALF_OPEN -> OPEN
    [] OTHER -> state

\* recordSuccess's threshold test, strict
SuccessesSufficeStrict(n) == n > SuccessThreshold

\* recordSuccess's threshold test in state HALF_OPEN
SuccessesSuffice(n) == n >= SuccessThreshold

BrInit ==
  /\ brState = CLOSED
  /\ currentFailures = 0
  /\ consecutiveSuccessesInHalfOpen = 0
  /\ lastFailureTime = 0
  /\ lastSuccessTime = 0
  /\ failureWindow = <<>>
  /\ brRet = [op |-> "none", result |-> FALSE, pre |-> CLOSED, preLast |-> 0, at |-> 0,
              preSucc |-> 0]

CanExecute ==
  LET w == CleanupOldFailures(failureWindow, now)
      res == CASE brState = CLOSED -> TRUE
               [] brState = OPEN -> OpenVerdict(lastFailureTime, now)
               [] brState = HALF_OPEN -> TRUE
               [] OTHER -> FALSE
  IN /\ failureWindow' = w
     /\ currentFailures' = Len(w)
     /\ IF brState = OPEN /\ res
          THEN /\ brState' = HALF_OPEN
               /\ consecutiveSuccessesInHalfOpen' = 0
          ELSE UNCHANGED <<brState, consecutiveSuccessesInHalfOpen>>
     /\ brRet' = [op |-> "canExecute", result |-> res, pre |-> brState,
                  preLast |-> lastFailureTime, at |-> now,
               preSucc |-> consecutiveSuccessesInHalfOpen]
     /\ UNCHANGED <<lastFailureTime, lastSuccessTime>>

\* reset(), as a set of assignments
BrResetFields ==
  /\ brState' = CLOSED
  /\ currentFailures' = 0
  /\ consecutiveSuccessesInHalfOpen' = 0
  /\ failureWindow' = <<>>

RecordSuccess ==
  /\ lastSuccessTime' = now
  /\ CASE brState = HALF_OPEN ->
            IF SuccessesSuffice(consecutiveSuccessesInHalfOpen + 1)
              THEN BrResetFields
              ELSE /\ consecutiveSuccessesInHalfOpen' = consecutiveSuccessesInHalfOpen + 1
                   /\ UNCHANGED <<brState, currentFailures, failureWindow>>
       [] brState = CLOSED ->
            /\ currentFailures' = Max(0, currentFailures - 1)
            /\ UNCHANGED <<brState, consecutiveSuccessesInHalfOpen, failureWindow>>
       [] OTHER ->
            UNCHANGED <<brState, currentFailures, consecutiveSuccessesInHalfOpen,
                        failureWindow>>
  /\ brRet' = [op |-> "recordSuccess", result |-> FALSE, pre |-> brState,
               preLast |-> lastFailureTime, at |-> now,
               preSucc |-> consecutiveSuccessesInHalfOpen]
  /\ UNCHANGED lastFailureTime

RecordFailure ==
  /\ Len(failureWindow) < MaxWindowLen
  /\ LET w == CleanupOldFailures(Append(failureWindow, now), now)
     IN /\ failureWindow' = w
        /\ currentFailures' = Len(w)
        /\ lastFailureTime' = now
        /\ brState' = StateAfterFailure(brState, Len(w), consecutiveSuccessesInHalfOpen)
  /\ brRet' = [op |-> "recordFailure", result |-> FALSE, pre |-> brState,
               preLast |-> lastFailureTime, at |-> now,
               preSucc |-> consecutiveSuccessesInHalfOpen]
  /\ UNCHANGED <<consecutiveSuccessesInHalfOpen, lastSuccessTime>>

BrReset ==
  /\ BrResetFields
  /\ brRet' = [op |-> "reset", result |-> FALSE, pre |-> brState,
               preLast |-> lastFailureTime, at |-> now,
               preSucc |-> consecutiveSuccessesInHalfOpen]
  /\ UNCHANGED <<lastFailureTime, lastSuccessTime>>

\* ---------------------------------------------------------- rate limiter
\* isAllowed: the bucket after dropping the times outside the window
RateTrim(times, t) == SeqFilterGT(times, t - WindowMs)

\* isAllowed's verdict with <= in place of <
RateAllowedOffByOne(times, max) == Len(times) <= max

\* isAllowed: the verdict on a trimmed bucket
RateAllowed(times, max) == Len(times) < max

\* isAllowed's RateLimitInfo
RateInfo(times, t, allowed, max) ==
  [limit |-> max,
   current |-> Len(times) + (IF allowed THEN 1 ELSE 0),
   remaining |-> Max(0, Max(0, max - Len(times)) - (IF allowed THEN 1 ELSE 0)),
   resetTime |-> IF Len(times) > 0 THEN times[1] + WindowMs ELSE t + WindowMs]

\* isAllowed pushing the time of every request, admitted or not
RateBucketAfterRecordingAll(times, t, max) == Append(RateTrim(times, t), t)

\* isAllowed: the bucket it leaves behind
RateBucketAfter(times, t, max) ==
  LET trimmed == RateTrim(times, t)
  IN IF RateAllowed(trimmed, max) THEN Append(trimmed, t) ELSE trimmed

\* WebSocketConfig.routes[route].rateLimit.maxRequests
RouteMaxRequests(r) == IF r = "/api/feed" THEN FeedMaxRequests ELSE MaxRequests

RlInit ==
  /\ requests = [r \in LimitedRoutes |-> [c \in Clients |-> <<>>]]
  /\ admitted = [r \in LimitedRoutes |-> [c \in Clients |-> <<>>]]
  /\ rlRet = [route |-> "none", client |-> "none", allowed |-> TRUE]

\* getLimiter and generateKey with the client left out of the key
BucketKeyPerRoute(r, c) == <<r, CHOOSE x \in Clients : TRUE>>

\* getLimiter(routePath) and generateKey: the limiter of the route and, in its
\* requests Map, the entry of the client's key
BucketKey(r, c) == <<r, c>>

\* RouteRateLimiterManager.checkRateLimit for a route that has a rateLimit rule
CheckRateLimit(r, c) ==
  LET k == BucketKey(r, c)
      trimmed == RateTrim(requests[k[1]][k[2]], now)
      ok == RateAllowed(trimmed, RouteMaxRequests(r))
  IN /\ requests' = [requests EXCEPT ![k[1]][k[2]] =
                        RateBucketAfter(requests[k[1]][k[2]], now, RouteMaxRequests(r))]
     /\ admitted' = [admitted EXCEPT ![r][c] = IF ok THEN Append(@, now) ELSE @]
     /\ rlRet' = [route |-> r, client |-> c, allowed |-> ok]

\* WebSocketRateLimiter.cleanup, the 60 s sweep (an emptied bucket is deleted;
\* a deleted bucket and an empty one are both <<>> here)
RateCleanup(r) ==
  /\ \E c \in Clients : RateTrim(requests[r][c], now) # requests[r][c]
  /\ requests' = [requests EXCEPT ![r] = [c \in Clients |-> RateTrim(requests[r][c], now)]]
  /\ UNCHANGED <<admitted, rlRet>>

\* ------------------------------------------------------- connection pool
NoConns == [i \in {} |-> [path |-> ""]]

\* addConnection with the capacity test off by one
PoolFullOffByOne(conns) == Cardinality(DOMAIN conns) > MaxConnections

\* addConnection: the capacity test
PoolFull(conns) == Cardinality(DOMAIN conns) >= MaxConnections

\* addConnection: the Map after connections.set / connectionMetadata.set
PoolWith(conns, id, path) ==
  [i \in DOMAIN conns \cup {id} |-> IF i = id THEN [path |-> path] ELSE conns[i]]

\* removeConnection: the Map after connections.delete / connectionMetadata.delete
PoolWithout(conns, id) == [i \in DOMAIN conns \ {id} |-> conns[i]]

\* the close and error observers of setupConnectionHandlers: every pool that
\* observes the socket of id removes id
PoolsAfterEvent(id) ==
  [g \in Gens |-> IF <<g, id>> \in poolObs THEN PoolWithout(pool[g], id) ELSE pool[g]]

PoolInit ==
  /\ wsState = [i \in ConnIds |-> "none"]
  /\ pool = [g \in Gens |-> NoConns]
  /\ poolObs = {}
  /\ poolTimer = [g \in Gens |-> FALSE]
  /\ poolRet = [op |-> "none", g |-> 1, id |-> 0, result |-> FALSE, pre |-> NoConns]

\* new WebSocketConnectionPool(maxConnections, idleTimeout): pool 1 exists
PoolConstructed ==
  /\ wsState = [i \in ConnIds |-> "none"]
  /\ pool = [g \in Gens |-> NoConns]
  /\ poolObs = {}
  /\ poolTimer = [g \in Gens |-> g = 1]
  /\ poolRet = [op |-> "none", g |-> 1, id |-> 0, result |-> FALSE, pre |-> NoConns]

\* a client socket comes into being (the framing library completed a handshake)
WsOpen(id) ==
  /\ wsState[id] = "none"
  /\ wsState' = [wsState EXCEPT ![id] = "open"]
  /\ UNCHANGED <<pool, poolObs, poolTimer, poolRet>>

\* pool.addConnection(id, ws, path) on pool g
AddConnection(g, id, path) ==
  /\ wsState[id] # "none"
  /\ IF PoolFull(pool[g])
       THEN /\ poolRet' = [op |-> "add", g |-> g, id |-> id, result |-> FALSE, pre |-> pool[g]]
            /\ UNCHANGED <<pool, poolObs>>
       ELSE /\ pool' = [pool EXCEPT ![g] = PoolWith(pool[g], id, path)]
            /\ poolObs' = poolObs \cup {<<g, id>>}
            /\ poolRet' = [op |-> "add", g |-> g, id |-> id, result |-> TRUE, pre |-> pool[g]]
  /\ UNCHANGED <<wsState, poolTimer>>

\* pool.removeConnection(id) on pool g
RemoveConnection(g, id) ==
  /\ pool' = [pool EXCEPT ![g] = PoolWithout(pool[g], id)]
  /\ poolRet' = [op |-> "remove", g |-> g, id |-> id, result |-> id \in DOMAIN pool[g],
                 pre |-> pool[g]]
  /\ UNCHANGED <<wsState, poolObs, poolTimer>>

\* the client socket of id emits close
PoolSocketClose(id) ==
  /\ wsState[id] # "none"
  /\ wsState' = [wsState EXCEPT ![id] = "closed"]
  /\ pool' = PoolsAfterEvent(id)
  /\ poolRet' = [op |-> "close", g |-> 1, id |-> id, result |-> FALSE, pre |-> NoConns]
  /\ UNCHANGED <<poolObs, poolTimer>>

\* the client socket of id emits error
PoolSocketError(id) ==
  /\ wsState[id] \in {"open", "closing"}
  /\ wsState' = [wsState EXCEPT ![id] = "closing"]
  /\ pool' = PoolsAfterEvent(id)
  /\ poolRet' = [op |-> "error", g |-> 1, id |-> id, result |-> FALSE, pre |-> NoConns]
  /\ UNCHANGED <<poolObs, poolTimer>>

PoolPaths == {"/api/echo", "/api/chat"}

\* config.routes: the routes that carry a maxConnections override
RouteOverrides == {"/api/feed"}

\* getRouteConfig(config, routePath).maxConnections
GetRouteConfigMax(routePath) ==
  IF routePath \in RouteOverrides THEN FeedMaxConnections ELSE ConfigMaxConnections

AdmitPaths == {"/api/feed", "/api/echo"}

\* the admission steps of the upgrade callback for a client whose handshake
\* completed on pathname: getRouteConfig, then connectionPool.addConnection on
\* the pool that initializeConnectionPool built with config.maxConnections; a
\* refused client is closed with 1013
AdmitConnection(id, pathname) ==
  LET currentRouteConfig == GetRouteConfigMax(pathname)
      full == Cardinality(DOMAIN pool[1]) >= ConfigMaxConnections
  IN /\ wsState[id] = "open"
     /\ id \notin DOMAIN pool[1]
     /\ currentRouteConfig \in Nat
     /\ IF full
          THEN /\ wsState' = [wsState EXCEPT ![id] = "closing"]
               /\ UNCHANGED <<pool, poolObs>>
          ELSE /\ pool' = [pool EXCEPT ![1] = PoolWith(pool[1], id, pathname)]
               /\ poolObs' = poolObs \cup {<<1, id>>}
               /\ UNCHANGED wsState
     /\ poolRet' = [op |-> "add", g |-> 1, id |-> id, result |-> ~full, pre |-> pool[1]]
     /\ UNCHANGED poolTimer

\* ------------------------------------------------------- route resolution
\* serverAdapter.getAppRoutes(): pattern -> page key
AppPathRoutes ==
  [pattern \in {"/api/echo", "/api/feed", "/api/plain", "/api/broken", "/about",
                "/api/rooms/[id]"} |->
     IF pattern = "/about" THEN [page |-> pattern, kind |-> "page"]
                           ELSE [page |-> pattern, kind |-> "route"]]

\* isDynamicRoute
IsDynamicRoute(pattern) == pattern = "/api/rooms/[id]"

\* getRouteMatcher(getRouteRegex(pattern))(requestPath)
RouteMatcher(pattern, requestPath) ==
  pattern = "/api/rooms/[id]" /\ requestPath \in {"/api/rooms/a", "/api/rooms/b"}

\* resolvePathToRoute: the page key of the route file, "null" if there is none
ResolvePathToRoute(requestPath) ==
  LET entries == {q \in DOMAIN AppPathRoutes : AppPathRoutes[q].kind = "route"}
      statics == {q \in entries : ~IsDynamicRoute(q) /\ q = requestPath}
      dynamics == {q \in entries : IsDynamicRoute(q) /\ RouteMatcher(q, requestPath)}
  IN IF statics # {} THEN AppPathRoutes[CHOOSE q \in statics : TRUE].page
     ELSE IF dynamics # {} THEN AppPathRoutes[CHOOSE q \in dynamics : TRUE].page
     ELSE "null"

\* importRouteModule: the module and its exports, null when require throws
ImportRouteModule(pageKey) ==
  CASE pageKey = "/api/broken" -> [null |-> TRUE, exports |-> {}]
    [] pageKey = "/api/plain" -> [null |-> FALSE, exports |-> {"GET"}]
    [] OTHER -> [null |-> FALSE, exports |-> {"GET", "SOCKET"}]

\* getSocketHandler: the route whose SOCKET export it found, "undefined" if none
GetSocketHandler(routeModule, pageKey) ==
  IF routeModule.null THEN "undefined"
  ELSE IF "SOCKET" \in routeModule.exports THEN pageKey ELSE "undefined"

\* resolveWebSocketRoute: a resolution, or the error it throws
ResolveWebSocketRoute(pathname) ==
  LET routeInfo == ResolvePathToRoute(pathname)
      routeModule == ImportRouteModule(routeInfo)
      handler == GetSocketHandler(routeModule, routeInfo)
  IN IF routeInfo = "null" THEN [throws |-> "RouteNotFoundError", handler |-> "undefined"]
     ELSE IF routeModule.null THEN [throws |-> "ModuleImportError", handler |-> "undefined"]
     ELSE IF handler = "undefined" THEN [throws |-> "HandlerNotFoundError", handler |-> "undefined"]
     ELSE [throws |-> "none", handler |-> handler]

\* getRouteConfig(config, pathname).rateLimit is set
HasRateLimit(pathname) == pathname \in LimitedRoutes

\* ------------------------------------------------------- setup and teardown
\* the request paths of the upgrades
UpgradePaths == {"/api/echo", "/api/feed", "/nope", "/api/plain", "/api/broken", "/_next/hmr"}
\* two request paths of the parameterised route
RoomPaths == {"/api/rooms/a", "/api/rooms/b"}
\* the pathnames a connection handler can be cached under
HandlerPaths == {q \in UpgradePaths \cup RoomPaths : ResolveWebSocketRoute(q).throws = "none"}

IdleUpgrade ==
  [pc |-> "idle", path |-> "", gen |-> 0, sock |-> "open", active |-> FALSE,
   cleanupFn |-> FALSE, closeObs |-> FALSE, hbObs |-> FALSE, hb |-> FALSE,
   gto |-> FALSE, closeReason |-> "", cleanups |-> 0, afterFail |-> FALSE, found |-> "",
   offTicks |-> 0, offPing |-> FALSE, reported |-> ""]

\* a handleUpgrade call that has returned or rejected without a connection:
\* its locals are gone, the raw socket and its tracker entry are what is left
Returned(u, pc) ==
  [IdleUpgrade EXCEPT !.pc = pc, !.sock = u.sock, !.active = u.active]

HealthInit == health = [monitor |-> FALSE, errorsOccurred |-> 0]

\* handleConnectionError's report to the health monitor: recordError() when
\* getHealthMonitor() returns one
HandleConnectionError(h) ==
  IF h.monitor THEN [h EXCEPT !.errorsOccurred = @ + 1] ELSE h

\* initializeHealthMonitor, called by setup when the configuration enables
\* metrics or the health check
InitializeHealthMonitor(h, monitoring) ==
  IF monitoring THEN [h EXCEPT !.monitor = TRUE] ELSE h

\* executeHandlerSafely's catch: the thrown value wrapped
WrapHandlerError(thrown) == "HandlerExecutionError"

\* the catch of the Promise.resolve(connectionHandler) block: the value handed
\* to handleConnectionError is the thrown one
ReportedError(thrown) == thrown

UpInit ==
  /\ up = [s \in Sockets |-> IdleUpgrade]
  /\ cache = {}
  /\ cacheFn = [q \in HandlerPaths |-> 0]
  /\ factoryCalls = [q \in HandlerPaths |-> 0]
  /\ factoryFailed = {}
  /\ cleanedUp = {}
  /\ srv = [phase |-> "listening", listenerMap |-> 0, upgradeListeners |-> {},
            closeListeners |-> {}, globalWs |-> 0, globalPool |-> 0, setups |-> 0]
  /\ wsServer = [g \in Gens |-> "none"]
  /\ timers = [perf |-> 0, tracker |-> FALSE, memory |-> FALSE]

\* WebSocket.terminate() / WebSocket.close() on the client sockets in ids
WsStateAfterClose(ids) ==
  [i \in ConnIds |-> IF i \in ids /\ wsState[i] = "open" THEN "closing" ELSE wsState[i]]

\* the clients of WebSocketServer g (a closed socket has left the set)
ClientsOf(g) == {s \in Sockets : up[s].gen = g /\ wsState[s] \in {"open", "closing"}}

\* clearWebSocketServer: terminate the clients of the global server, close it,
\* delete the global handle
ClearedWsServer ==
  IF srv.globalWs = 0 THEN wsServer ELSE [wsServer EXCEPT ![srv.globalWs] = "closed"]

\* setupWebSocketServer
Setup(monitoring) ==
  LET g == srv.setups + 1
      terminated == IF srv.globalWs = 0 THEN {} ELSE ClientsOf(srv.globalWs)
      attached == srv.listenerMap # 0
      shutdown == IF attached \/ srv.globalPool = 0 THEN {} ELSE DOMAIN pool[srv.globalPool]
  IN /\ srv.setups < MaxSetups
     /\ cache' = {}
     /\ cacheFn' = [q \in HandlerPaths |-> 0]
     /\ factoryFailed' = {}
     /\ wsState' = WsStateAfterClose(terminated \cup shutdown)
     /\ up' = [s \in Sockets |->
                 IF s \in terminated
                   THEN [up[s] EXCEPT !.sock = "destroyed", !.afterFail = FALSE]
                 ELSE IF s \in shutdown /\ wsState[s] = "open"
                   THEN [up[s] EXCEPT !.closeReason = "Server shutdown", !.afterFail = FALSE]
                 ELSE [up[s] EXCEPT !.afterFail = FALSE]]
     /\ IF attached
          THEN /\ wsServer' = ClearedWsServer
               /\ srv' = [srv EXCEPT !.globalWs = 0, !.setups = g]
               /\ timers' = [timers EXCEPT !.memory = TRUE]
               /\ UNCHANGED <<pool, poolObs, poolTimer>>
          ELSE /\ wsServer' = [ClearedWsServer EXCEPT ![g] = "running"]
               /\ srv' = [srv EXCEPT !.globalWs = g, !.globalPool = g, !.setups = g,
                                      !.listenerMap = g,
                                      !.upgradeListeners = @ \cup {g},
                                      !.closeListeners = @ \cup {g}]
               /\ timers' = [timers EXCEPT !.memory = TRUE,
                                           !.perf = @ + (IF srv.globalPool = 0 THEN 2 ELSE 1)]
               /\ pool' = [h \in Gens |-> IF h = srv.globalPool THEN NoConns ELSE pool[h]]
               /\ poolTimer' = [h \in Gens |-> h = g]
               /\ UNCHANGED poolObs
     /\ health' = InitializeHealthMonitor(health, monitoring)
     /\ UNCHANGED <<factoryCalls, cleanedUp, poolRet>>

\* httpServer.removeListener that leaves the listener attached
RemoveListenerNoOp(listeners, handler) == listeners

\* httpServer.removeListener('upgrade', existingSetup.handler)
RemoveListener(listeners, handler) == listeners \ {handler}

\* cleanupWebSocketServer, run by every 'close' listener that setup attached
HostClose ==
  /\ srv.phase = "listening"
  /\ \A s \in Sockets : /\ wsState[s] \notin {"open", "closing"}
                        /\ up[s].sock = "open" => up[s].pc = "idle"
  /\ srv' = [srv EXCEPT !.phase = "closed",
                        !.listenerMap = IF srv.closeListeners = {} THEN @ ELSE 0,
                        !.upgradeListeners =
                           IF srv.closeListeners = {} THEN @
                           ELSE RemoveListener(@, srv.listenerMap)]
  /\ cache' = IF srv.closeListeners = {} THEN cache ELSE {}
  /\ cacheFn' = IF srv.closeListeners = {} THEN cacheFn ELSE [q \in HandlerPaths |-> 0]
  /\ factoryFailed' = IF srv.closeListeners = {} THEN factoryFailed ELSE {}
  /\ wsServer' = [g \in Gens |-> IF g \in srv.closeListeners THEN "closed" ELSE wsServer[g]]
  /\ up' = [s \in Sockets |->
              [up[s] EXCEPT !.afterFail = IF srv.closeListeners = {} THEN @ ELSE FALSE]]
  /\ UNCHANGED <<factoryCalls, cleanedUp, timers, poolVars>>

\* the host server is put back to listening
HostListen ==
  /\ srv.phase = "closed"
  /\ srv' = [srv EXCEPT !.phase = "listening"]
  /\ UNCHANGED <<up, cache, cacheFn, factoryCalls, factoryFailed, cleanedUp, wsServer, timers, poolVars>>

\* ------------------------------------------------------- the upgrade handler
\* generateKey: every upgrade of the pipeline comes from one address
ClientOf(s) == "1.2.3.4"

\* pathname.startsWith('/_next/')
IsInternalPath(pathname) == pathname = "/_next/hmr"

\* a tracker that reports no socket as in flight
IsSocketActiveNever(s) == FALSE

\* tracker.isSocketActive(socket)
IsSocketActive(s) == up[s].active

\* a rate check whose rejection is only logged
AfterRateCheckGoesOn(u, limited) == [u EXCEPT !.pc = "resolving", !.active = TRUE]

\* handleUpgrade after checkRateLimit: destroy the socket, unmark it and
\* return when the limiter rejected, go on to resolve the route otherwise
AfterRateCheck(u, limited) ==
  IF limited THEN Returned([u EXCEPT !.sock = "destroyed"], "limited")
  ELSE [u EXCEPT !.pc = "resolving", !.active = TRUE]

\* handleUpgrade after its dedupe test, up to its first await: mark active,
\* skip internal paths, rate limit
UpgradeBegin(s, pathname) ==
  LET g == CHOOSE h \in srv.upgradeListeners : TRUE
      limited == HasRateLimit(pathname) /\
                 ~RateAllowed(RateTrim(requests[pathname][ClientOf(s)], now),
                              RouteMaxRequests(pathname))
      u == [up[s] EXCEPT !.path = pathname, !.gen = g,
                         !.afterFail = pathname \in factoryFailed]
  IN /\ srv.phase = "listening"
     /\ srv.upgradeListeners # {}
     /\ timers' = [timers EXCEPT !.tracker = TRUE]
     /\ IF IsInternalPath(pathname)
          THEN /\ up' = [up EXCEPT ![s] = Returned(u, "skipped")]
               /\ UNCHANGED rlVars
          ELSE /\ IF HasRateLimit(pathname)
                    THEN CheckRateLimit(pathname, ClientOf(s))
                    ELSE UNCHANGED rlVars
               /\ up' = [up EXCEPT ![s] = AfterRateCheck(u, limited)]
     /\ UNCHANGED <<cache, cacheFn, factoryCalls, factoryFailed, cleanedUp, srv, wsServer, poolVars>>

\* the first upgrade event of a raw socket: handleUpgrade up to its first await
UpgradeStart(s, pathname) ==
  /\ up[s].pc = "idle"
  /\ ~IsSocketActive(s)
  /\ UpgradeBegin(s, pathname)

EvIdle == ev = [n |-> 0, sock |-> 0, wasActive |-> FALSE]

\* any upgrade event of a raw socket that is still open, the first or a
\* further one: handleUpgrade returns at once when the tracker has the
\* socket in flight
UpgradeEvent(s, pathname) ==
  /\ ev.n < MaxUpgradeEvents
  /\ srv.phase = "listening"
  /\ srv.upgradeListeners # {}
  /\ up[s].sock = "open"
  /\ ev' = [n |-> ev.n + 1, sock |-> s, wasActive |-> up[s].active]
  /\ IF IsSocketActive(s)
       THEN UNCHANGED <<rlVars, poolVars, upVars>>
       ELSE UpgradeBegin(s, pathname)

\* isMemoryUsageAcceptable with the maximum itself still accepted
IsMemoryUsageAcceptableAtMax(pct) == pct <= MemMaximum

\* WebSocketMemoryManager.isMemoryUsageAcceptable, on the heap percentage
IsMemoryUsageAcceptable(pct) == pct < MemMaximum

\* the close code that goes with each reason the runtime closes a client with
CloseCode(reason) ==
  CASE reason \in {"Server overloaded", "Server at capacity"} -> 1013
    [] reason = "Server shutdown" -> 1000
    [] OTHER -> 0

\* wsServer.handleUpgrade and the synchronous part of its callback: memory
\* check, pool admission, the call of the connection handler. A socket that
\* is no longer open, or a WebSocketServer that was closed, ends the
\* handshake with the socket destroyed.
UpgradeWs(s, pct) ==
  LET u == up[s]
      g == u.gen
      found == IF pct >= MemMaximum THEN "overloaded"
               ELSE IF Cardinality(DOMAIN pool[g]) >= MaxConnections THEN "full" ELSE "room"
      refused(reason) == [u EXCEPT !.pc = "refusing", !.gto = TRUE, !.closeReason = reason,
                                   !.found = found]
  IN IF u.sock # "open" \/ wsServer[g] # "running"
       THEN /\ up' = [up EXCEPT ![s] =
                          Returned([u EXCEPT !.sock = "destroyed", !.active = FALSE], "aborted")]
            /\ UNCHANGED poolVars
     ELSE IF ~IsMemoryUsageAcceptable(pct)
       THEN /\ up' = [up EXCEPT ![s] = refused("Server overloaded")]
            /\ wsState' = [wsState EXCEPT ![s] = "closing"]
            /\ UNCHANGED <<pool, poolObs, poolTimer, poolRet>>
     ELSE IF PoolFull(pool[g])
       THEN /\ up' = [up EXCEPT ![s] = refused("Server at capacity")]
            /\ wsState' = [wsState EXCEPT ![s] = "closing"]
            /\ UNCHANGED <<pool, poolObs, poolTimer, poolRet>>
     ELSE /\ up' = [up EXCEPT ![s] = [u EXCEPT !.pc = "inHandler", !.found = found]]
          /\ wsState' = [wsState EXCEPT ![s] = "open"]
          /\ pool' = [pool EXCEPT ![g] = PoolWith(pool[g], s, u.path)]
          /\ poolObs' = poolObs \cup {<<g, s>>}
          /\ UNCHANGED <<poolTimer, poolRet>>

\* resolveWebSocketRoute settles; on success getOrInitializeConnectionHandler
\* runs up to its await
ResolveDone(s, pct) ==
  LET u == up[s]
      resolution == ResolveWebSocketRoute(u.path)
  IN /\ u.pc = "resolving"
     /\ IF resolution.throws # "none"
          THEN /\ up' = [up EXCEPT ![s] = Returned(u, "failed")]
               /\ UNCHANGED <<factoryCalls, poolVars>>
        ELSE IF u.path \in cache
          THEN /\ UpgradeWs(s, pct)
               /\ UNCHANGED factoryCalls
        ELSE /\ factoryCalls' = [factoryCalls EXCEPT ![u.path] = @ + 1]
             /\ up' = [up EXCEPT ![s].pc = "initializing"]
             /\ UNCHANGED poolVars
     /\ UNCHANGED <<cache, cacheFn, factoryFailed, cleanedUp, srv, wsServer, timers>>

FactoryOutcomes == {"function", "non-function", "throws"}

\* the SOCKET export settles: the rest of getOrInitializeConnectionHandler and
\* of handleUpgrade
FactoryDone(s, outcome, pct) ==
  LET u == up[s]
  IN /\ u.pc = "initializing"
     /\ IF outcome = "function"
          THEN /\ cache' = cache \cup {u.path}
               /\ cacheFn' = [cacheFn EXCEPT ![u.path] = s]
               /\ UpgradeWs(s, pct)
               /\ UNCHANGED factoryFailed
          ELSE /\ factoryFailed' = factoryFailed \cup {u.path}
               /\ up' = [up EXCEPT ![s] =
                           Returned([u EXCEPT !.sock = "destroyed", !.active = FALSE], "rejected")]
               /\ UNCHANGED <<cache, cacheFn, poolVars>>
     /\ UNCHANGED <<factoryCalls, cleanedUp, srv, wsServer, timers>>


HandlerOutcomes == {"function", "undefined", "throws"}

\* the connection handler settles: observers and heartbeat are attached, or
\* the socket is terminated
HandlerDone(s, outcome) ==
  LET u == up[s]
  IN /\ u.pc = "inHandler"
     /\ IF outcome = "throws"
          THEN /\ up' = [up EXCEPT ![s] =
                           [Returned([u EXCEPT !.sock = "destroyed"], "handlerFailed")
                              EXCEPT !.reported = ReportedError("Error")]]
               /\ health' = HandleConnectionError(health)
               /\ wsState' = WsStateAfterClose({s})
          ELSE /\ up' = [up EXCEPT ![s] = [u EXCEPT !.pc = "connected",
                                                    !.cleanupFn = (outcome = "function"),
                                                    !.closeObs = TRUE, !.hbObs = TRUE,
                                                    !.hb = TRUE]]
               /\ UNCHANGED <<wsState, health>>
     /\ UNCHANGED <<pool, poolObs, poolTimer, poolRet, cache, cacheFn, factoryCalls, factoryFailed,
                    cleanedUp, srv, wsServer, timers>>

\* the close observer that runs the cleanup with the error observer doing the same
CleanupRunsOnError(u, id, event) == IF u.closeObs /\ u.cleanupFn THEN 1 ELSE 0

\* how often the observers of an event of the client socket run the user cleanup
CleanupRuns(u, id, event) ==
  IF event = "close" /\ u.closeObs /\ id \notin cleanedUp /\ u.cleanupFn THEN 1 ELSE 0

\* the client socket emits close: the observers run in the order they were attached
WsCloseEvent(s) ==
  LET u == up[s]
      marks == u.closeObs /\ s \notin cleanedUp
      cleaned == IF marks THEN cleanedUp \cup {s} ELSE cleanedUp
  IN /\ wsState[s] \in {"open", "closing"}
     /\ wsState' = [wsState EXCEPT ![s] = "closed"]
     /\ pool' = PoolsAfterEvent(s)
     /\ UNCHANGED poolRet
     /\ cleanedUp' = cleaned
     /\ up' = [up EXCEPT ![s] =
                 [Returned(u, IF u.pc = "refusing" THEN "refused"
                              ELSE IF u.pc = "connected" THEN "closed" ELSE u.pc)
                    EXCEPT !.sock = "destroyed", !.active = FALSE,
                           !.path = IF u.pc = "inHandler" THEN u.path ELSE "",
                           !.gen = IF u.pc = "inHandler" THEN u.gen ELSE 0,
                           !.cleanups = u.cleanups + CleanupRuns(u, s, "close"),
                           !.hb = IF u.hbObs /\ s \notin cleaned THEN FALSE ELSE u.hb,
                           !.offTicks = u.offTicks, !.offPing = u.offPing]]
     /\ UNCHANGED <<poolObs, poolTimer, cache, cacheFn, factoryCalls, factoryFailed, srv, wsServer,
                    timers>>

\* the client socket emits error
WsErrorEvent(s) ==
  LET u == up[s]
  IN /\ wsState[s] = "open"
     /\ wsState' = [wsState EXCEPT ![s] = "closing"]
     /\ pool' = PoolsAfterEvent(s)
     /\ UNCHANGED poolRet
     /\ up' = [up EXCEPT ![s].cleanups = @ + CleanupRuns(u, s, "error")]
     /\ health' = IF u.closeObs THEN HandleConnectionError(health) ELSE health
     /\ UNCHANGED <<poolObs, poolTimer, cache, cacheFn, factoryCalls, factoryFailed, cleanedUp, srv,
                    wsServer, timers>>

\* the heartbeat callback that pings whatever the socket's state
HeartbeatActionAlwaysPing(readyState) == "ping"

\* the heartbeat callback: ping an OPEN socket, clear the interval otherwise
HeartbeatAction(readyState) == IF readyState = "open" THEN "ping" ELSE "clear"

\* the 30 s heartbeat interval of a connection fires; offTicks counts the
\* ticks that found the socket not OPEN (kept to 2 at most), offPing
\* remembers a ping sent on such a tick
HeartbeatTick(s) ==
  /\ up[s].hb
  /\ up' = [up EXCEPT ![s] =
              [@ EXCEPT !.hb = (HeartbeatAction(wsState[s]) = "ping"),
                        !.offTicks = IF wsState[s] = "open" THEN @
                                     ELSE IF @ < 2 THEN @ + 1 ELSE @,
                        !.offPing = @ \/ (wsState[s] # "open" /\
                                          HeartbeatAction(wsState[s]) = "ping")]]
  /\ UNCHANGED <<cache, cacheFn, factoryCalls, factoryFailed, cleanedUp, srv, wsServer, timers,
                 poolVars>>

\* closeWebSocketGracefully: the close did not complete within the timeout
GracefulTimeout(s) ==
  /\ up[s].gto
  /\ up' = [up EXCEPT ![s] =
              Returned([@ EXCEPT !.sock = IF wsState[s] # "closed" THEN "destroyed" ELSE @],
                       "refused")]
  /\ UNCHANGED <<cache, cacheFn, factoryCalls, factoryFailed, cleanedUp, srv, wsServer, timers,
                 poolVars>>

\* markConnectionCleanedUp: the 30 s timer of an entry fires
CleanedUpExpire(id) ==
  /\ id \in cleanedUp
  /\ cleanedUp' = cleanedUp \ {id}
  /\ UNCHANGED <<up, cache, cacheFn, factoryCalls, factoryFailed, srv, wsServer, timers, poolVars>>

\* the peer drops a raw socket that has not completed a handshake: the
\* tracker's close observer takes it out of the in-flight set
RawSocketClose(s) ==
  /\ up[s].pc # "idle"
  /\ up[s].sock = "open"
  /\ wsState[s] = "none"
  /\ up' = [up EXCEPT ![s] = [@ EXCEPT !.sock = "destroyed", !.active = FALSE]]
  /\ UNCHANGED <<cache, cacheFn, factoryCalls, factoryFailed, cleanedUp, srv, wsServer, timers,
                 poolVars>>

\* ------------------------------------------------------- graceful close
GcIdle == [phase |-> "idle", timer |-> FALSE, start |-> 0, terminated |-> FALSE, via |-> ""]

GcInit == gc = [s \in Sockets |-> GcIdle]

\* a close handshake of the client socket is under way before anyone asks for
\* a graceful close: readyState CLOSING
CloseUnderWay(s) ==
  /\ wsState[s] = "open"
  /\ gc[s].phase = "idle"
  /\ wsState' = [wsState EXCEPT ![s] = "closing"]
  /\ UNCHANGED <<pool, poolObs, poolTimer, poolRet, gc>>

\* closeWebSocketGracefully(client, {timeout}); throws: client.close() throws.
\* phase "waiting" is the pending promise with its once('close') observer.
CloseWebSocketGracefully(s, throws) ==
  /\ wsState[s] # "none"
  /\ gc[s].phase = "idle"
  /\ CASE wsState[s] = "closed" ->
            /\ gc' = [gc EXCEPT ![s] = [GcIdle EXCEPT !.phase = "resolved", !.start = now,
                                                         !.via = "closed"]]
            /\ UNCHANGED wsState
       [] wsState[s] = "closing" ->
            /\ gc' = [gc EXCEPT ![s] = [GcIdle EXCEPT !.phase = "waiting", !.start = now]]
            /\ UNCHANGED wsState
       [] OTHER ->
            /\ gc' = [gc EXCEPT ![s] =
                        IF throws
                          THEN [GcIdle EXCEPT !.phase = "resolved", !.start = now,
                                              !.terminated = TRUE, !.via = "throw"]
                          ELSE [GcIdle EXCEPT !.phase = "waiting", !.start = now,
                                              !.timer = TRUE]]
            /\ wsState' = [wsState EXCEPT ![s] = "closing"]
  /\ UNCHANGED <<pool, poolObs, poolTimer, poolRet>>

\* the closeTimeout callback: terminate unless CLOSED, then resolve
CloseTimeoutFires(s) ==
  /\ gc[s].timer
  /\ now >= gc[s].start + CloseTimeout
  /\ gc' = [gc EXCEPT ![s] =
              [@ EXCEPT !.timer = FALSE,
                        !.terminated = wsState[s] # "closed",
                        !.phase = "resolved",
                        !.via = "timeout"]]
  /\ UNCHANGED poolVars

\* the client socket emits close: the once('close') observer of a pending call
\* clears the timeout and resolves
GcCloseEvent(s) ==
  /\ wsState[s] \in {"open", "closing"}
  /\ wsState' = [wsState EXCEPT ![s] = "closed"]
  /\ gc' = [gc EXCEPT ![s] =
              IF @.phase = "waiting"
                THEN [@ EXCEPT !.phase = "resolved", !.timer = FALSE, !.via = "event"]
                ELSE @]
  /\ UNCHANGED <<pool, poolObs, poolTimer, poolRet>>

\* the clock advances; a timeout that is due fires before the clock moves on
GcTick ==
  /\ now < MaxTime
  /\ \A s \in Sockets : gc[s].timer => now < gc[s].start + CloseTimeout
  /\ now' = now + 1

\* ------------------------------------------- route resolution over a table
\* A path and a pattern are sequences of segments; a page key is the pattern
\* followed by the name of its file ("route" or "page").
ParamSegments == {"[id]", "[section]"}

RoutePatterns == {<<"api", "echo">>, <<"api", "[id]">>, <<"[section]", "echo">>, <<"about">>}

RequestPaths == {<<"api", "echo">>, <<"api", "x">>, <<"docs", "echo">>, <<"about">>, <<"nope">>}

RouteEntries == {[pattern |-> q, pageKey |-> Append(q, f)] : q \in RoutePatterns, f \in {"route", "page"}}

\* the route tables: entries in declaration order, one entry per pattern
RECURSIVE TablesOfLen(_)
TablesOfLen(n) ==
  IF n = 0 THEN {<<>>}
  ELSE {Append(t, e) : t \in TablesOfLen(n - 1), e \in RouteEntries} \cap
       {t \in Seq(RouteEntries) : \A i, j \in 1..Len(t) : i # j => t[i].pattern # t[j].pattern}

\* pageKey.endsWith('/route')
EndsWithRoute(pageKey) == Len(pageKey) > 0 /\ pageKey[Len(pageKey)] = "route"

\* isDynamicRoute(pattern)
IsDynamicPattern(pattern) == \E i \in 1..Len(pattern) : pattern[i] \in ParamSegments

\* the name of a parameter segment: "[id]" -> "id"
ParamName(seg) == IF seg = "[id]" THEN "id" ELSE "section"

\* getRouteMatcher(getRouteRegex(pattern))(requestPath): false, or the params
MatchPattern(pattern, requestPath) ==
  IF /\ Len(pattern) = Len(requestPath)
     /\ \A i \in 1..Len(pattern) : pattern[i] \in ParamSegments \/ pattern[i] = requestPath[i]
    THEN [matched |-> TRUE,
          params |-> {<<ParamName(pattern[i]), requestPath[i]>> :
                        i \in {k \in 1..Len(pattern) : pattern[k] \in ParamSegments}}]
    ELSE [matched |-> FALSE, params |-> {}]

NoRoute == [found |-> FALSE, filePath |-> <<>>, routeParams |-> {}]

\* the loop over staticEntries
RECURSIVE FirstStatic(_, _)
FirstStatic(entries, requestPath) ==
  IF entries = <<>> THEN NoRoute
  ELSE IF Head(entries).pattern = requestPath
    THEN [found |-> TRUE, filePath |-> Head(entries).pageKey, routeParams |-> {}]
  ELSE FirstStatic(Tail(entries), requestPath)

\* the loop over dynamicEntries
RECURSIVE FirstDynamic(_, _)
FirstDynamic(entries, requestPath) ==
  IF entries = <<>> THEN NoRoute
  ELSE IF MatchPattern(Head(entries).pattern, requestPath).matched
    THEN [found |-> TRUE, filePath |-> Head(entries).pageKey,
          routeParams |-> MatchPattern(Head(entries).pattern, requestPath).params]
  ELSE FirstDynamic(Tail(entries), requestPath)

\* the loop over the entries of the table in declaration order, static or not
RECURSIVE FirstOfAny(_, _)
FirstOfAny(entries, requestPath) ==
  IF entries = <<>> THEN NoRoute
  ELSE IF IsDynamicPattern(Head(entries).pattern)
    THEN IF MatchPattern(Head(entries).pattern, requestPath).matched
           THEN FirstDynamic(entries, requestPath)
           ELSE FirstOfAny(Tail(entries), requestPath)
  ELSE IF Head(entries).pattern = requestPath
    THEN FirstStatic(entries, requestPath)
  ELSE FirstOfAny(Tail(entries), requestPath)

\* resolvePathToRoute that does not try the static entries first
ResolvePathToRouteInOrder(appPathRoutes, requestPath) ==
  FirstOfAny(SelectSeq(appPathRoutes, LAMBDA e : EndsWithRoute(e.pageKey)), requestPath)

\* resolvePathToRoute(serverAdapter, requestPath) on the table appPathRoutes
ResolvePathToRouteIn(appPathRoutes, requestPath) ==
  LET apiRouteEntries == SelectSeq(appPathRoutes, LAMBDA e : EndsWithRoute(e.pageKey))
      staticEntries == SelectSeq(apiRouteEntries, LAMBDA e : ~IsDynamicPattern(e.pattern))
      dynamicEntries == SelectSeq(apiRouteEntries, LAMBDA e : IsDynamicPattern(e.pattern))
      static == FirstStatic(staticEntries, requestPath)
  IN IF apiRouteEntries = <<>> THEN NoRoute
     ELSE IF static.found THEN static
     ELSE FirstDynamic(dynamicEntries, requestPath)

RtInit ==
  \E t \in UNION {TablesOfLen(n) : n \in 0..MaxTableLen}, q \in RequestPaths :
    rt = [table |-> t, path |-> q, calls |-> 0, ret |-> NoRoute, same |-> TRUE]

\* one more call of resolvePathToRoute with the same table and path; same
\* remembers whether every call so far returned what the first one did
ResolveCall ==
  LET r == ResolvePathToRouteIn(rt.table, rt.path)
  IN /\ rt.calls < MaxResolveCalls
     /\ rt' = [rt EXCEPT !.calls = @ + 1, !.ret = r,
                         !.same = @ /\ (rt.calls = 0 \/ r = rt.ret)]

\* -------------------------------------------------------------- broadcast
\* the segments of a pooled path
Segments(path) ==
  CASE path = "/api/feed" -> <<"api", "feed">>
    [] path = "/api/echo" -> <<"api", "echo">>
    [] path = "/api/chat" -> <<"api", "chat">>
    [] OTHER -> <<>>

\* the path patterns handed to broadcast, as segments
PathPatterns == {<<"api">>, <<"feed">>}

\* metadata.path.includes(pathPattern)
Includes(path, pathPattern) ==
  \E i \in 0..(Len(path) - Len(pathPattern)) :
    \A k \in 1..Len(pathPattern) : path[i + k] = pathPattern[k]

\* getConnectionsByPath(pathPattern): the matching pooled ids, in the order
\* of the Map (the ids in ascending order)
RECURSIVE ConnectionsByPath(_, _, _)
ConnectionsByPath(conns, pathPattern, from) ==
  IF from > NumIds THEN <<>>
  ELSE IF from \in DOMAIN conns /\ Includes(Segments(conns[from].path), pathPattern)
    THEN <<from>> \o ConnectionsByPath(conns, pathPattern, from + 1)
  ELSE ConnectionsByPath(conns, pathPattern, from + 1)

NoneSent == [sent |-> 0, attempted |-> {}, delivered |-> {}]

\* one turn of broadcast's loop that counts a send that threw
SendStepCountsThrow(ws, throwers, acc) ==
  IF wsState[ws] # "open" THEN acc
  ELSE IF ws \in throwers
    THEN [acc EXCEPT !.sent = @ + 1, !.attempted = @ \cup {ws}]
  ELSE [sent |-> acc.sent + 1, attempted |-> acc.attempted \cup {ws},
        delivered |-> acc.delivered \cup {ws}]

\* one turn of broadcast's loop: send to an OPEN socket and count the send if
\* it returned, swallow it if it threw
SendStep(ws, throwers, acc) ==
  IF wsState[ws] # "open" THEN acc
  ELSE IF ws \in throwers
    THEN [acc EXCEPT !.attempted = @ \cup {ws}]
  ELSE [sent |-> acc.sent + 1, attempted |-> acc.attempted \cup {ws},
        delivered |-> acc.delivered \cup {ws}]

\* the loop of broadcast over the matching connections
RECURSIVE BroadcastLoop(_, _, _)
BroadcastLoop(connections, throwers, acc) ==
  IF connections = <<>> THEN acc
  ELSE BroadcastLoop(Tail(connections), throwers, SendStep(Head(connections), throwers, acc))

BcIdle ==
  bc = [op |-> "none", pattern |-> <<>>, throwers |-> {}, result |-> NoneSent,
        messageRate |-> 0]

\* pool.broadcast(pathPattern, message) on pool 1; throwers: the sockets whose
\* send throws
Broadcast(pathPattern, throwers) ==
  LET result == BroadcastLoop(ConnectionsByPath(pool[1], pathPattern, 1), throwers, NoneSent)
  IN /\ bc.messageRate + result.sent <= MaxMessageRate
     /\ bc' = [op |-> "broadcast", pattern |-> pathPattern, throwers |-> throwers,
               result |-> result, messageRate |-> bc.messageRate + result.sent]

\* ---------------------------------------------------------- message buffer
Messages == {"m1", "m2", "m3"}

\* buffer.map((item) => item.message)
MessagesOf(buffer) == [i \in 1..Len(buffer) |-> buffer[i].message]

\* add's fullness test with the comparison strict
BufferFullStrict(len, maxSize) == len > maxSize

\* add's fullness test
BufferFull(len, maxSize) == len >= maxSize

NoFlush == [op |-> "none", pre |-> <<>>, msg |-> "", flushed |-> FALSE, out |-> <<>>]

MbIdle == mb = [maxSize |-> 1, buffer |-> <<>>, flushTimeout |-> FALSE, ret |-> NoFlush]

\* new MessageBuffer(maxSize, flushInterval, onFlush)
MbInit ==
  \E n \in 1..MaxBufferSize :
    mb = [maxSize |-> n, buffer |-> <<>>, flushTimeout |-> FALSE, ret |-> NoFlush]

\* flush() that clears the timer and leaves the buffer as it was
AfterFlushKeepingBuffer(b, buffer) ==
  IF buffer = <<>> THEN [b EXCEPT !.buffer = buffer]
  ELSE [b EXCEPT !.buffer = buffer, !.flushTimeout = FALSE]

\* flush(): the fields after it, given the buffer it finds
AfterFlush(b, buffer) ==
  IF buffer = <<>> THEN [b EXCEPT !.buffer = buffer]
  ELSE [b EXCEPT !.buffer = <<>>, !.flushTimeout = FALSE]

\* add(message); ret.out is what onFlush was called with
MbAdd(message) ==
  LET pushed == Append(mb.buffer, [message |-> message, timestamp |-> now])
      full == BufferFull(Len(pushed), mb.maxSize)
  IN /\ Len(mb.buffer) < MaxBufferSize
     /\ mb' = IF full
                THEN [AfterFlush(mb, pushed) EXCEPT
                        !.ret = [op |-> "add", pre |-> MessagesOf(mb.buffer), msg |-> message,
                                 flushed |-> TRUE, out |-> MessagesOf(pushed)]]
                ELSE [mb EXCEPT !.buffer = pushed, !.flushTimeout = TRUE,
                                !.ret = [op |-> "add", pre |-> MessagesOf(mb.buffer),
                                         msg |-> message, flushed |-> FALSE, out |-> <<>>]]

\* flush() called from outside, or by the flushTimeout timer
MbFlush(byTimer) ==
  /\ byTimer => mb.flushTimeout
  /\ mb' = [AfterFlush(mb, mb.buffer) EXCEPT
              !.ret = [op |-> IF byTimer THEN "timer" ELSE "flush",
                       pre |-> MessagesOf(mb.buffer), msg |-> "",
                       flushed |-> mb.buffer # <<>>, out |-> MessagesOf(mb.buffer)]]

\* destroy(): flush what is left, which clears the timer
MbDestroy ==
  /\ mb' = [AfterFlush(mb, mb.buffer) EXCEPT
              !.ret = [op |-> "destroy", pre |-> MessagesOf(mb.buffer), msg |-> "",
                       flushed |-> mb.buffer # <<>>, out |-> MessagesOf(mb.buffer)]]

\* ------------------------------------------------------- recovery strategy
\* the codes an error object can carry: those of the error classes, a code of
\* another WebSocketError, and no code at all
ErrorCodes ==
  {"ROUTE_NOT_FOUND", "HANDLER_NOT_FOUND", "MODULE_IMPORT_ERROR",
   "SERVER_NOT_AVAILABLE", "CONNECTION_LIMIT_EXCEEDED",
   "HANDLER_EXECUTION_ERROR", "CUSTOM_ERROR", ""}

\* the status codes an error object can carry, 0 for none
StatusCodes == {0, 404, 500}

\* the thrown values: ws says whether the value is an instance of
\* WebSocketError; any value may carry a code property
Errors == [ws : BOOLEAN, code : ErrorCodes, statusCode : StatusCodes]

\* new RouteNotFoundError(path)
RouteNotFoundError == [ws |-> TRUE, code |-> "ROUTE_NOT_FOUND", statusCode |-> 404]
\* new HandlerNotFoundError(path)
HandlerNotFoundError == [ws |-> TRUE, code |-> "HANDLER_NOT_FOUND", statusCode |-> 400]
\* new ModuleImportError(path)
ModuleImportError == [ws |-> TRUE, code |-> "MODULE_IMPORT_ERROR", statusCode |-> 500]
\* new ServerNotAvailableError(reason)
ServerNotAvailableError == [ws |-> TRUE, code |-> "SERVER_NOT_AVAILABLE", statusCode |-> 503]
\* new ConnectionLimitError(maxConnections)
ConnectionLimitError == [ws |-> TRUE, code |-> "CONNECTION_LIMIT_EXCEEDED", statusCode |-> 429]
\* new HandlerExecutionError(path, originalError)
HandlerExecutionError == [ws |-> TRUE, code |-> "HANDLER_EXECUTION_ERROR", statusCode |-> 500]

\* error instanceof WebSocketError
IsWebSocketError(error) == error.ws

\* getRecoveryStrategy without the case of CONNECTION_LIMIT_EXCEEDED
GetRecoveryStrategyNoLimitCase(error) ==
  IF IsWebSocketError(error)
    THEN CASE error.code \in {"ROUTE_NOT_FOUND", "HANDLER_NOT_FOUND"} -> "close"
           [] error.code \in {"MODULE_IMPORT_ERROR", "HANDLER_EXECUTION_ERROR"} -> "terminate"
           [] error.code = "SERVER_NOT_AVAILABLE" -> "close"
           [] OTHER -> "terminate"
  ELSE "terminate"

\* getRecoveryStrategy(error)
GetRecoveryStrategy(error) ==
  IF IsWebSocketError(error)
    THEN CASE error.code \in {"ROUTE_NOT_FOUND", "HANDLER_NOT_FOUND"} -> "close"
           [] error.code \in {"MODULE_IMPORT_ERROR", "HANDLER_EXECUTION_ERROR"} -> "terminate"
           [] error.code = "SERVER_NOT_AVAILABLE" -> "close"
           [] error.code = "CONNECTION_LIMIT_EXCEEDED" -> "close"
           [] OTHER -> "terminate"
  ELSE "terminate"

RsIdle == rs = [error |-> RouteNotFoundError, calls |-> 0, ret |-> "", same |-> TRUE]

RsInit ==
  \E e \in Errors \cup {RouteNotFoundError, HandlerNotFoundError, ModuleImportError,
                         ServerNotAvailableError, ConnectionLimitError,
                         HandlerExecutionError} :
    rs = [error |-> e, calls |-> 0, ret |-> "", same |-> TRUE]

\* one more call of getRecoveryStrategy with the same error; same remembers
\* whether every call so far returned what the first one did
RecoveryCall ==
  LET r == GetRecoveryStrategy(rs.error)
  IN /\ rs.calls < MaxRecoveryCalls
     /\ rs' = [rs EXCEPT !.calls = @ + 1, !.ret = r,
                         !.same = @ /\ (rs.calls = 0 \/ r = rs.ret)]

\* ----------------------------------------------------------- memory manager
\* heap usage, in percent, as getMemoryStats can find it
CleanupLevels == {MemWarning - 1, MemWarning, MemCritical}
\* heap usage, in percent, as the recheck after a strategy can find it
RecheckLevels == {MemWarning - 1, MemWarning}

\* the priorities of registerDefaultCleanupStrategies, in registration order
DefaultStrategies == <<10, 9, 6, 3>>

\* the priorities of the strategies a caller registers
CustomPriorities == {5, 2}

\* registerCleanupStrategy: push, then the stable sort by descending priority
RegisteredWith(strategies, priority) ==
  SelectSeq(strategies, LAMBDA q : q >= priority) \o <<priority>> \o
  SelectSeq(strategies, LAMBDA q : q < priority)

\* executeCleanup's choice of strategies for a heap percentage
StrategiesToExecute(strategies, pct, force) ==
  IF pct >= MemCritical THEN strategies
  ELSE IF pct >= MemWarning THEN SelectSeq(strategies, LAMBDA q : q >= 5)
  ELSE IF force THEN SelectSeq(strategies, LAMBDA q : q >= 3)
  ELSE <<>>

\* executeCleanup's cooldown test
InCooldown(force, t, lastCleanup) == ~force /\ t - lastCleanup < CleanupCooldown

\* an executeCleanup call that has not been made
IdleRun ==
  [pc |-> "idle", force |-> FALSE, start |-> 0, pct |-> 0, selected |-> <<>>, idx |-> 0,
   ran |-> FALSE, ranAfterLow |-> FALSE, leftAtHigh |-> FALSE, skipped |-> FALSE]

\* an executeCleanup call that has returned: its locals are gone; what is
\* kept is whether it was skipped, whether it ran a strategy, whether it began
\* a strategy after the heap was found below warning, and whether it left
\* strategies unrun although the heap was last found at warning or above
ReturnedRun(run, skipped, leftAtHigh) ==
  [IdleRun EXCEPT !.pc = "done", !.force = run.force, !.start = run.start,
                  !.ran = run.idx >= 1, !.ranAfterLow = run.ranAfterLow,
                  !.leftAtHigh = leftAtHigh, !.skipped = skipped]

CleanupCalls == 1..MaxCleanupRuns

\* no memory manager is being examined
MemIdle ==
  mem = [strategies |-> <<>>, lastCleanup |-> 0, custom |-> 0,
         runs |-> [r \in CleanupCalls |-> IdleRun]]

\* new WebSocketMemoryManager(): the default strategies are registered;
\* lastCleanup is 0, a time more than a cooldown before the first clock value
MemInit ==
  mem = [strategies |-> DefaultStrategies, lastCleanup |-> 1 - CleanupCooldown, custom |-> 0,
         runs |-> [r \in CleanupCalls |-> IdleRun]]

MemTick ==
  /\ now < MemMaxTime
  /\ now' = now + 1

\* registerCleanupStrategy(strategy), called while no cleanup is running
RegisterCleanupStrategy(priority) ==
  /\ mem.custom = 0
  /\ \A r \in CleanupCalls : mem.runs[r].pc # "awaiting"
  /\ mem' = [mem EXCEPT !.strategies = RegisteredWith(@, priority), !.custom = priority]

\* executeCleanup(force) up to its first await or its return, the heap being
\* at pct; monitor says that checkAndCleanup made the call
ExecuteCleanup(r, force, pct, monitor) ==
  LET selected == StrategiesToExecute(mem.strategies, pct, force)
      run == [IdleRun EXCEPT !.force = force, !.start = now, !.pct = pct]
  IN /\ mem.runs[r].pc = "idle"
     /\ \A q \in CleanupCalls : q < r => mem.runs[q].pc # "idle"
     /\ IF InCooldown(force, now, mem.lastCleanup)
          THEN mem' = [mem EXCEPT !.runs[r] = ReturnedRun(run, TRUE, FALSE)]
        ELSE IF selected = <<>>
          THEN mem' = [mem EXCEPT !.lastCleanup = now,
                                  !.runs[r] = ReturnedRun(run, FALSE, FALSE)]
        ELSE mem' = [mem EXCEPT !.runs[r] = [run EXCEPT !.pc = "awaiting",
                                                        !.selected = selected, !.idx = 1]]

\* the monitoring interval fires: checkAndCleanup calls executeCleanup() when
\* the heap is at warning or above
CheckAndCleanup(r, pct) ==
  /\ pct >= MemWarning
  /\ ExecuteCleanup(r, FALSE, pct, TRUE)

\* the strategy a cleanup awaits settles, the heap being at pct then: the
\* recheck after a strategy that returned, the next strategy or the end
StrategyDone(r, outcome, pct) ==
  LET run == mem.runs[r]
      stops == outcome = "ok" /\ pct < MemWarning
      last == run.idx = Len(run.selected)
  IN /\ run.pc = "awaiting"
     /\ IF stops \/ last
          THEN mem' = [mem EXCEPT !.lastCleanup = run.start,
                                  !.runs[r] = ReturnedRun(run, FALSE,
                                                          ~last /\ pct >= MemWarning)]
          ELSE mem' = [mem EXCEPT !.runs[r] =
                         [run EXCEPT !.idx = @ + 1,
                                     !.ranAfterLow = @ \/ pct < MemWarning]]

\* ---------------------------------------------------------- configuration
\* An object is a function from its own keys to their values; an absent key
\* is outside the domain.
EmptyObject == [k \in {} |-> 0]

\* {...a, ...b}
Spread(a, b) == [k \in DOMAIN a \cup DOMAIN b |-> IF k \in DOMAIN b THEN b[k] ELSE a[k]]

\* one object with one key
Single(k, v) == [x \in {k} |-> v]

\* the values an environment variable is given; "" stands for an unset one
EnvNumbers == {"", "7", "abc"}
EnvFlags == {"", "true", "false"}

\* parseInt(text, 10); -1 stands for NaN
ParseInt(text) == IF text = "7" THEN 7 ELSE -1

\* nextConfig.experimental.websocket: the file config
FileSecurity ==
  {EmptyObject, Single("origins", "https://a.example"), Single("maxPayloadSize", 3),
   Spread(Single("origins", "https://a.example"), Single("maxPayloadSize", 3))}
FileMonitoring ==
  {EmptyObject, Single("metrics", FALSE), Single("healthCheck", "on"),
   Spread(Single("metrics", FALSE), Single("healthCheck", "on"))}
FileConfigs ==
  {Spread(Spread(top, sec), mon) :
     top \in {EmptyObject, Single("maxConnections", 5)},
     sec \in {EmptyObject} \cup {Single("security", x) : x \in FileSecurity},
     mon \in {EmptyObject} \cup {Single("monitoring", x) : x \in FileMonitoring}}

\* process.env: NEXT_WEBSOCKET_MAX_CONNECTIONS, _MAX_PAYLOAD_SIZE, _METRICS
Environments ==
  [MAX_CONNECTIONS : EnvNumbers, MAX_PAYLOAD_SIZE : EnvNumbers, METRICS : EnvFlags]

\* loadWebSocketConfig: the envConfig it builds from the environment
EnvConfig(env) ==
  LET conns == IF env.MAX_CONNECTIONS # "" /\ ParseInt(env.MAX_CONNECTIONS) # -1
                 THEN Single("maxConnections", ParseInt(env.MAX_CONNECTIONS))
                 ELSE EmptyObject
      payload == IF env.MAX_PAYLOAD_SIZE # "" /\ ParseInt(env.MAX_PAYLOAD_SIZE) # -1
                   THEN Single("security",
                               Single("maxPayloadSize", ParseInt(env.MAX_PAYLOAD_SIZE)))
                   ELSE EmptyObject
      metrics == IF env.METRICS # ""
                   THEN Single("monitoring", Single("metrics", env.METRICS = "true"))
                   ELSE EmptyObject
  IN Spread(Spread(conns, payload), metrics)

\* loadWebSocketConfig(nextConfig)
LoadWebSocketConfig(nextJsConfig, env) == Spread(nextJsConfig, EnvConfig(env))

CfgIdle ==
  cfg = [file |-> EmptyObject, env |-> [MAX_CONNECTIONS |-> "", MAX_PAYLOAD_SIZE |-> "",
                                        METRICS |-> ""],
         called |-> FALSE, ret |-> EmptyObject]

CfgInit ==
  \E f \in FileConfigs, e \in Environments :
    cfg = [file |-> f, env |-> e, called |-> FALSE, ret |-> EmptyObject]

LoadConfigCall ==
  /\ ~cfg.called
  /\ cfg' = [cfg EXCEPT !.called = TRUE, !.ret = LoadWebSocketConfig(cfg.file, cfg.env)]

\* the variables of the function calls, when no call is being examined
RtIdle ==
  rt = [table |-> <<>>, path |-> <<>>, calls |-> 0, ret |-> NoRoute, same |-> TRUE]

\* no health monitor is being examined
HmIdle == hm = [activeConnections |-> {}, globalPool |-> 1]

FnIdle ==
  /\ RtIdle
  /\ CfgIdle
  /\ BcIdle
  /\ MbIdle
  /\ RsIdle
  /\ EvIdle
  /\ MemIdle
  /\ HmIdle

\* every variable but those of the function calls
sysVars == <<timeVars, brVars, rlVars, poolVars, upVars, gcVars, healthVars>>

vars == <<now, requests, admitted, rlRet, wsState, pool, poolObs, poolTimer, poolRet,
          up, cache, cacheFn, factoryCalls, factoryFailed, cleanedUp, srv, wsServer, timers, brState, currentFailures, consecutiveSuccessesInHalfOpen,
          lastFailureTime, lastSuccessTime, failureWindow, brRet, gc, health, rt, cfg, bc, mb, rs, ev, mem, hm>>

Init ==
  /\ now = 1
  /\ BrInit
  /\ RlInit
  /\ PoolInit
  /\ UpInit
  /\ GcInit
  /\ HealthInit
  /\ FnIdle

NextBreaker ==
  \/ Tick /\ UNCHANGED <<brVars, rlVars, poolVars, upVars, gcVars, healthVars, fnVars>>
  \/ CanExecute /\ UNCHANGED <<timeVars, rlVars, poolVars, upVars, gcVars, healthVars, fnVars>>
  \/ RecordSuccess /\ UNCHANGED <<timeVars, rlVars, poolVars, upVars, gcVars, healthVars, fnVars>>
  \/ RecordFailure /\ UNCHANGED <<timeVars, rlVars, poolVars, upVars, gcVars, healthVars, fnVars>>
  \/ BrReset /\ UNCHANGED <<timeVars, rlVars, poolVars, upVars, gcVars, healthVars, fnVars>>

SpecBreaker == Init /\ [][NextBreaker]_vars

RateTick ==
  /\ now < RateMaxTime
  /\ now' = now + 1

NextRate ==
  \/ RateTick /\ UNCHANGED <<brVars, rlVars, poolVars, upVars, gcVars, healthVars, fnVars>>
  \/ \E k \in RlKeys : CheckRateLimit(k[1], k[2]) /\ UNCHANGED <<timeVars, brVars, poolVars, upVars, gcVars, healthVars, fnVars>>
  \/ \E r \in RlRoutes : RateCleanup(r) /\ UNCHANGED <<timeVars, brVars, poolVars, upVars, gcVars, healthVars, fnVars>>

SpecRate == Init /\ [][NextRate]_vars

\* ---- health monitor: the pool's reports of connections (health-check.ts) ----

\* recordConnection: activeConnections.add(connectionId)
RecordConnection(active, id) == active \cup {id}

\* recordDisconnection: activeConnections.delete(connectionId)
RecordDisconnection(active, id) == active \ {id}

\* removeConnection's report: recordDisconnection only when the pool that runs
\* it still holds the socket and the metadata of id
AfterRemoveReport(active, conns, id) ==
  IF health.monitor /\ id \in DOMAIN conns THEN RecordDisconnection(active, id) ELSE active

\* the reports of the close and error observers: every pool that observes the
\* socket of id runs removeConnection(id)
AfterEventReports(active, id) ==
  IF \E g \in Gens : <<g, id>> \in poolObs /\ AfterRemoveReport(active, pool[g], id) # active
    THEN RecordDisconnection(active, id)
    ELSE active

\* getConnectionPool().addConnection(id, ws, path) with its report
AddConnectionReported(id, path) ==
  /\ AddConnection(hm.globalPool, id, path)
  /\ hm' = [hm EXCEPT !.activeConnections =
              IF health.monitor /\ poolRet'.result THEN RecordConnection(@, id) ELSE @]

\* getConnectionPool().removeConnection(id) with its report
RemoveConnectionReported(id) ==
  /\ RemoveConnection(hm.globalPool, id)
  /\ hm' = [hm EXCEPT !.activeConnections = AfterRemoveReport(@, pool[hm.globalPool], id)]

\* the socket of id emits close: the observers run removeConnection
SocketCloseReported(id) ==
  /\ PoolSocketClose(id)
  /\ hm' = [hm EXCEPT !.activeConnections = AfterEventReports(@, id)]

\* the socket of id emits error: the observers run removeConnection
SocketErrorReported(id) ==
  /\ PoolSocketError(id)
  /\ hm' = [hm EXCEPT !.activeConnections = AfterEventReports(@, id)]

\* pool.destroy() on pool g: the interval cleared, close(1000, 'Server shutdown')
\* on every socket, both Maps cleared; nothing is reported to the monitor
DestroyPool(g) ==
  /\ poolTimer' = [poolTimer EXCEPT ![g] = FALSE]
  /\ wsState' = WsStateAfterClose(DOMAIN pool[g])
  /\ pool' = [pool EXCEPT ![g] = NoConns]
  /\ poolRet' = [op |-> "destroy", g |-> g, id |-> 0, result |-> FALSE, pre |-> pool[g]]
  /\ UNCHANGED poolObs

\* getConnectionPool().destroy()
PoolDestroy ==
  /\ poolTimer[hm.globalPool]
  /\ DestroyPool(hm.globalPool)
  /\ UNCHANGED hm

\* initializeConnectionPool: the global pool destroyed and replaced
InitializeConnectionPool ==
  /\ hm.globalPool < MaxSetups
  /\ DestroyPool(hm.globalPool)
  /\ hm' = [hm EXCEPT !.globalPool = @ + 1]

InitPool ==
  /\ now = 1
  /\ BrInit
  /\ RlInit
  /\ PoolConstructed
  /\ UpInit
  /\ GcInit
  /\ HealthInit
  /\ FnIdle

NextPool ==
  \/ \E id \in ConnIds : WsOpen(id) /\ UNCHANGED <<timeVars, brVars, rlVars, upVars, gcVars, healthVars, fnVars>>
  \/ \E id \in ConnIds, path \in PoolPaths :
       AddConnection(1, id, path) /\ UNCHANGED <<timeVars, brVars, rlVars, upVars, gcVars, healthVars, fnVars>>
  \/ \E id \in ConnIds : RemoveConnection(1, id) /\ UNCHANGED <<timeVars, brVars, rlVars, upVars, gcVars, healthVars, fnVars>>
  \/ \E id \in ConnIds : PoolSocketClose(id) /\ UNCHANGED <<timeVars, brVars, rlVars, upVars, gcVars, healthVars, fnVars>>
  \/ \E id \in ConnIds : PoolSocketError(id) /\ UNCHANGED <<timeVars, brVars, rlVars, upVars, gcVars, healthVars, fnVars>>

SpecPool == InitPool /\ [][NextPool]_vars

\* the global pool and an initialised health monitor
InitHealth ==
  /\ now = 1
  /\ BrInit
  /\ RlInit
  /\ PoolConstructed
  /\ UpInit
  /\ GcInit
  /\ health = InitializeHealthMonitor([monitor |-> FALSE, errorsOccurred |-> 0], TRUE)
  /\ FnIdle

HealthFrame == UNCHANGED <<timeVars, brVars, rlVars, upVars, gcVars, healthVars, rt, cfg, bc, mb, rs, ev, mem>>

\* the connections and the route the monitored pool is driven with
HealthIds == {1, 2}

NextHealth ==
  \/ \E id \in HealthIds : WsOpen(id) /\ UNCHANGED hm /\ HealthFrame
  \/ \E id \in HealthIds : AddConnectionReported(id, "/api/echo") /\ HealthFrame
  \/ \E id \in HealthIds : RemoveConnectionReported(id) /\ HealthFrame
  \/ \E id \in HealthIds : SocketCloseReported(id) /\ HealthFrame
  \/ \E id \in HealthIds : SocketErrorReported(id) /\ HealthFrame
  \/ PoolDestroy /\ HealthFrame
  \/ InitializeConnectionPool /\ HealthFrame

SpecHealth == InitHealth /\ [][NextHealth]_vars

Next ==
  \/ \E monitoring \in BOOLEAN : Setup(monitoring) /\ UNCHANGED <<timeVars, brVars, rlVars, gcVars, fnVars>>
  \/ HostClose /\ UNCHANGED <<timeVars, brVars, rlVars, gcVars, healthVars, fnVars>>
  \/ HostListen /\ UNCHANGED <<timeVars, brVars, rlVars, gcVars, healthVars, fnVars>>
  \/ \E s \in Sockets, q \in UpgradePaths : UpgradeStart(s, q) /\ UNCHANGED <<timeVars, brVars, gcVars, healthVars, fnVars>>
  \/ \E s \in Sockets, pct \in MemLevels :
       ResolveDone(s, pct) /\ UNCHANGED <<timeVars, brVars, rlVars, gcVars, healthVars, fnVars>>
  \/ \E s \in Sockets, outcome \in FactoryOutcomes, pct \in MemLevels :
       FactoryDone(s, outcome, pct) /\ UNCHANGED <<timeVars, brVars, rlVars, gcVars, healthVars, fnVars>>
  \/ \E s \in Sockets, outcome \in HandlerOutcomes :
       HandlerDone(s, outcome) /\ UNCHANGED <<timeVars, brVars, rlVars, gcVars, fnVars>>
  \/ \E s \in Sockets : WsCloseEvent(s) /\ UNCHANGED <<timeVars, brVars, rlVars, gcVars, healthVars, fnVars>>
  \/ \E s \in Sockets : WsErrorEvent(s) /\ UNCHANGED <<timeVars, brVars, rlVars, gcVars, fnVars>>
  \/ \E s \in Sockets : HeartbeatTick(s) /\ UNCHANGED <<timeVars, brVars, rlVars, gcVars, healthVars, fnVars>>
  \/ \E s \in Sockets : GracefulTimeout(s) /\ UNCHANGED <<timeVars, brVars, rlVars, gcVars, healthVars, fnVars>>
  \/ \E s \in Sockets : CleanedUpExpire(s) /\ UNCHANGED <<timeVars, brVars, rlVars, gcVars, healthVars, fnVars>>
  \/ \E s \in Sockets : RawSocketClose(s) /\ UNCHANGED <<timeVars, brVars, rlVars, gcVars, healthVars, fnVars>>

Spec == Init /\ [][Next]_vars

\* the life of the connections of one route while the host server stays up
NextLife ==
  \/ Setup(FALSE) /\ UNCHANGED <<timeVars, brVars, rlVars, gcVars, fnVars>>
  \/ \E s \in Sockets : UpgradeStart(s, "/api/echo") /\ UNCHANGED <<timeVars, brVars, gcVars, healthVars, fnVars>>
  \/ \E s \in Sockets, pct \in MemLevels :
       ResolveDone(s, pct) /\ UNCHANGED <<timeVars, brVars, rlVars, gcVars, healthVars, fnVars>>
  \/ \E s \in Sockets, outcome \in FactoryOutcomes, pct \in MemLevels :
       FactoryDone(s, outcome, pct) /\ UNCHANGED <<timeVars, brVars, rlVars, gcVars, healthVars, fnVars>>
  \/ \E s \in Sockets, outcome \in HandlerOutcomes :
       HandlerDone(s, outcome) /\ UNCHANGED <<timeVars, brVars, rlVars, gcVars, fnVars>>
  \/ \E s \in Sockets : WsCloseEvent(s) /\ UNCHANGED <<timeVars, brVars, rlVars, gcVars, healthVars, fnVars>>
  \/ \E s \in Sockets : WsErrorEvent(s) /\ UNCHANGED <<timeVars, brVars, rlVars, gcVars, fnVars>>
  \/ \E s \in Sockets : HeartbeatTick(s) /\ UNCHANGED <<timeVars, brVars, rlVars, gcVars, healthVars, fnVars>>
  \/ \E s \in Sockets : GracefulTimeout(s) /\ UNCHANGED <<timeVars, brVars, rlVars, gcVars, healthVars, fnVars>>
  \/ \E s \in Sockets : CleanedUpExpire(s) /\ UNCHANGED <<timeVars, brVars, rlVars, gcVars, healthVars, fnVars>>
  \/ \E s \in Sockets : RawSocketClose(s) /\ UNCHANGED <<timeVars, brVars, rlVars, gcVars, healthVars, fnVars>>

SpecLife == Init /\ [][NextLife]_vars

\* the memory manager's cleanups
InitMemory ==
  /\ now = 1
  /\ BrInit
  /\ RlInit
  /\ PoolInit
  /\ UpInit
  /\ GcInit
  /\ HealthInit
  /\ RtIdle
  /\ CfgIdle
  /\ BcIdle
  /\ MbIdle
  /\ RsIdle
  /\ EvIdle
  /\ MemInit
  /\ HmIdle

NextMemory ==
  \/ MemTick /\ UNCHANGED <<brVars, rlVars, poolVars, upVars, gcVars, healthVars, fnVars>>
  \/ \E priority \in CustomPriorities :
       RegisterCleanupStrategy(priority) /\ UNCHANGED <<sysVars, rt, cfg, bc, mb, rs, ev, hm>>
  \/ \E r \in CleanupCalls, force \in BOOLEAN, pct \in CleanupLevels :
       ExecuteCleanup(r, force, pct, FALSE) /\ UNCHANGED <<sysVars, rt, cfg, bc, mb, rs, ev, hm>>
  \/ \E r \in CleanupCalls, pct \in CleanupLevels :
       CheckAndCleanup(r, pct) /\ UNCHANGED <<sysVars, rt, cfg, bc, mb, rs, ev, hm>>
  \/ \E r \in CleanupCalls, outcome \in {"ok", "throws"}, pct \in RecheckLevels :
       StrategyDone(r, outcome, pct) /\ UNCHANGED <<sysVars, rt, cfg, bc, mb, rs, ev, hm>>

SpecMemory == InitMemory /\ [][NextMemory]_vars

\* upgrade events that reach raw sockets already in flight
NextDedupe ==
  \/ Setup(FALSE) /\ UNCHANGED <<timeVars, brVars, rlVars, gcVars, fnVars>>
  \/ \E s \in Sockets :
       UpgradeEvent(s, "/api/feed") /\ UNCHANGED <<timeVars, brVars, gcVars, healthVars, rt, cfg, bc, mb, rs, mem, hm>>
  \/ \E s \in Sockets :
       ResolveDone(s, MemMaximum - 1) /\ UNCHANGED <<timeVars, brVars, rlVars, gcVars, healthVars, fnVars>>
  \/ \E s \in Sockets, outcome \in FactoryOutcomes :
       FactoryDone(s, outcome, MemMaximum - 1) /\ UNCHANGED <<timeVars, brVars, rlVars, gcVars, healthVars, fnVars>>
  \/ \E s \in Sockets, outcome \in HandlerOutcomes :
       HandlerDone(s, outcome) /\ UNCHANGED <<timeVars, brVars, rlVars, gcVars, fnVars>>
  \/ \E s \in Sockets : WsCloseEvent(s) /\ UNCHANGED <<timeVars, brVars, rlVars, gcVars, healthVars, fnVars>>
  \/ \E s \in Sockets : RawSocketClose(s) /\ UNCHANGED <<timeVars, brVars, rlVars, gcVars, healthVars, fnVars>>

SpecDedupe == Init /\ [][NextDedupe]_vars

\* upgrades to the request paths of one parameterised route
NextRooms ==
  \/ Setup(FALSE) /\ UNCHANGED <<timeVars, brVars, rlVars, gcVars, fnVars>>
  \/ \E s \in Sockets, q \in RoomPaths :
       UpgradeStart(s, q) /\ UNCHANGED <<timeVars, brVars, gcVars, healthVars, fnVars>>
  \/ \E s \in Sockets :
       ResolveDone(s, MemMaximum - 1) /\ UNCHANGED <<timeVars, brVars, rlVars, gcVars, healthVars, fnVars>>
  \/ \E s \in Sockets, outcome \in FactoryOutcomes :
       FactoryDone(s, outcome, MemMaximum - 1) /\ UNCHANGED <<timeVars, brVars, rlVars, gcVars, healthVars, fnVars>>
  \/ \E s \in Sockets, outcome \in HandlerOutcomes :
       HandlerDone(s, outcome) /\ UNCHANGED <<timeVars, brVars, rlVars, gcVars, fnVars>>
  \/ \E s \in Sockets : WsCloseEvent(s) /\ UNCHANGED <<timeVars, brVars, rlVars, gcVars, healthVars, fnVars>>
  \/ \E s \in Sockets : RawSocketClose(s) /\ UNCHANGED <<timeVars, brVars, rlVars, gcVars, healthVars, fnVars>>

SpecRooms == Init /\ [][NextRooms]_vars

\* the host server closes and listens again while one route is served
NextHost ==
  \/ Setup(FALSE) /\ UNCHANGED <<timeVars, brVars, rlVars, gcVars, fnVars>>
  \/ HostClose /\ UNCHANGED <<timeVars, brVars, rlVars, gcVars, healthVars, fnVars>>
  \/ HostListen /\ UNCHANGED <<timeVars, brVars, rlVars, gcVars, healthVars, fnVars>>
  \/ \E s \in Sockets : UpgradeStart(s, "/api/echo") /\ UNCHANGED <<timeVars, brVars, gcVars, healthVars, fnVars>>
  \/ \E s \in Sockets :
       ResolveDone(s, MemMaximum - 1) /\ UNCHANGED <<timeVars, brVars, rlVars, gcVars, healthVars, fnVars>>
  \/ \E s \in Sockets, outcome \in FactoryOutcomes :
       FactoryDone(s, outcome, MemMaximum - 1) /\ UNCHANGED <<timeVars, brVars, rlVars, gcVars, healthVars, fnVars>>
  \/ \E s \in Sockets, outcome \in HandlerOutcomes :
       HandlerDone(s, outcome) /\ UNCHANGED <<timeVars, brVars, rlVars, gcVars, fnVars>>
  \/ \E s \in Sockets : WsCloseEvent(s) /\ UNCHANGED <<timeVars, brVars, rlVars, gcVars, healthVars, fnVars>>
  \/ \E s \in Sockets : GracefulTimeout(s) /\ UNCHANGED <<timeVars, brVars, rlVars, gcVars, healthVars, fnVars>>
  \/ \E s \in Sockets : RawSocketClose(s) /\ UNCHANGED <<timeVars, brVars, rlVars, gcVars, healthVars, fnVars>>

SpecHost == Init /\ [][NextHost]_vars

\* route resolution
InitResolve ==
  /\ now = 1
  /\ BrInit
  /\ RlInit
  /\ PoolInit
  /\ UpInit
  /\ GcInit
  /\ HealthInit
  /\ RtInit
  /\ CfgIdle
  /\ BcIdle
  /\ MbIdle
  /\ RsIdle
  /\ EvIdle
  /\ MemIdle
  /\ HmIdle

NextResolve == ResolveCall /\ UNCHANGED <<sysVars, cfg, bc, mb, rs, ev, mem, hm>>

SpecResolve == InitResolve /\ [][NextResolve]_vars

\* configuration loading
InitConfig ==
  /\ now = 1
  /\ BrInit
  /\ RlInit
  /\ PoolInit
  /\ UpInit
  /\ GcInit
  /\ HealthInit
  /\ RtIdle
  /\ CfgInit
  /\ BcIdle
  /\ MbIdle
  /\ RsIdle
  /\ EvIdle
  /\ MemIdle
  /\ HmIdle

NextConfig == LoadConfigCall /\ UNCHANGED <<sysVars, rt, bc, mb, rs, ev, mem, hm>>

SpecConfig == InitConfig /\ [][NextConfig]_vars

\* broadcasts to a pool that clients join and leave
NextBroadcast ==
  \/ \E id \in Sockets : WsOpen(id) /\ UNCHANGED <<timeVars, brVars, rlVars, upVars, gcVars, healthVars, fnVars>>
  \/ \E id \in Sockets, q \in AdmitPaths :
       AdmitConnection(id, q) /\ UNCHANGED <<timeVars, brVars, rlVars, upVars, gcVars, healthVars, fnVars>>
  \/ \E s \in Sockets : CloseUnderWay(s) /\ UNCHANGED <<timeVars, brVars, rlVars, upVars, healthVars, fnVars>>
  \/ \E id \in Sockets : PoolSocketClose(id) /\ UNCHANGED <<timeVars, brVars, rlVars, upVars, gcVars, healthVars, fnVars>>
  \/ \E q \in PathPatterns, throwers \in SUBSET Sockets :
       Broadcast(q, throwers) /\ UNCHANGED <<sysVars, rt, cfg, mb, rs, ev, mem, hm>>

SpecBroadcast == InitPool /\ [][NextBroadcast]_vars

\* recovery strategies of thrown values
InitRecovery ==
  /\ now = 1
  /\ BrInit
  /\ RlInit
  /\ PoolInit
  /\ UpInit
  /\ GcInit
  /\ HealthInit
  /\ RtIdle
  /\ CfgIdle
  /\ BcIdle
  /\ MbIdle
  /\ RsInit
  /\ EvIdle
  /\ MemIdle
  /\ HmIdle

NextRecovery == RecoveryCall /\ UNCHANGED <<sysVars, rt, cfg, bc, mb, ev, mem, hm>>

SpecRecovery == InitRecovery /\ [][NextRecovery]_vars

\* a message buffer
InitBuffer ==
  /\ now = 1
  /\ BrInit
  /\ RlInit
  /\ PoolInit
  /\ UpInit
  /\ GcInit
  /\ HealthInit
  /\ RtIdle
  /\ CfgIdle
  /\ BcIdle
  /\ MbInit
  /\ RsIdle
  /\ EvIdle
  /\ MemIdle
  /\ HmIdle

NextBuffer ==
  \/ \E m \in Messages : MbAdd(m) /\ UNCHANGED <<sysVars, rt, cfg, bc, rs, ev, mem, hm>>
  \/ \E byTimer \in BOOLEAN : MbFlush(byTimer) /\ UNCHANGED <<sysVars, rt, cfg, bc, rs, ev, mem, hm>>
  \/ MbDestroy /\ UNCHANGED <<sysVars, rt, cfg, bc, rs, ev, mem, hm>>

SpecBuffer == InitBuffer /\ [][NextBuffer]_vars

\* the callback of the setTimeout that add armed: the event loop runs it once
\* flushInterval has passed, unless a flush cleared the timer before
TimerFlush == MbFlush(TRUE) /\ UNCHANGED <<sysVars, rt, cfg, bc, rs, ev, mem, hm>>

SpecBufferFair == InitBuffer /\ [][NextBuffer]_vars /\ WF_vars(TimerFlush)

\* graceful closes of client sockets in any state
NextGraceful ==
  \/ \E s \in Sockets : WsOpen(s) /\ UNCHANGED <<timeVars, brVars, rlVars, upVars, gcVars, healthVars, fnVars>>
  \/ \E s \in Sockets : CloseUnderWay(s) /\ UNCHANGED <<timeVars, brVars, rlVars, upVars, healthVars, fnVars>>
  \/ \E s \in Sockets, throws \in BOOLEAN :
       CloseWebSocketGracefully(s, throws) /\ UNCHANGED <<timeVars, brVars, rlVars, upVars, healthVars, fnVars>>
  \/ \E s \in Sockets : CloseTimeoutFires(s) /\ UNCHANGED <<timeVars, brVars, rlVars, upVars, healthVars, fnVars>>
  \/ \E s \in Sockets : GcCloseEvent(s) /\ UNCHANGED <<timeVars, brVars, rlVars, upVars, healthVars, fnVars>>
  \/ GcTick /\ UNCHANGED <<brVars, rlVars, poolVars, upVars, gcVars, healthVars, fnVars>>

SpecGraceful == Init /\ [][NextGraceful]_vars

\* clients admitted to and leaving the pool of a configuration with a route override
NextAdmit ==
  \/ \E id \in ConnIds : WsOpen(id) /\ UNCHANGED <<timeVars, brVars, rlVars, upVars, gcVars, healthVars, fnVars>>
  \/ \E id \in ConnIds, q \in AdmitPaths :
       AdmitConnection(id, q) /\ UNCHANGED <<timeVars, brVars, rlVars, upVars, gcVars, healthVars, fnVars>>
  \/ \E id \in ConnIds : PoolSocketClose(id) /\ UNCHANGED <<timeVars, brVars, rlVars, upVars, gcVars, healthVars, fnVars>>

SpecAdmit == InitPool /\ [][NextAdmit]_vars

\* ============================================================ properties

\* C1: the SOCKET export of every route is invoked at most once, whatever the
\* order and interleaving of the upgrades.
C1_FactoryAtMostOnce == \A q \in HandlerPaths : factoryCalls[q] <= 1

\* C2: the cleanup function that the connection handler returned for a
\* connection is invoked at most once, whatever close and error events its
\* client socket emits.
C2_CleanupAtMostOnce == \A s \in Sockets : up[s].cleanups <= 1
\* a connection whose cleanup ran, whose socket is closed and whose
\* cleaned-up entry has expired again
C2_Witness ==
  \E s \in Sockets : /\ up[s].cleanups = 1
                      /\ up[s].pc = "closed"
                      /\ wsState[s] = "closed"
                      /\ s \notin cleanedUp

\* a client that was refused after its handshake
Refused(s) == up[s].pc \in {"refusing", "refused"}

\* C11: a client whose handshake found the heap at or above the maximum, or
\* the pool full, is being closed with 1013 and the matching reason, is in no
\* pool, and goes on to nothing but the end of that refusal: its connection
\* handler is never called and no observer or heartbeat is attached.
C11_RefusedWith1013 ==
  /\ [](\A s \in Sockets :
         /\ up[s].found \in {"overloaded", "full"} =>
              /\ up[s].pc = "refusing"
              /\ up[s].closeReason =
                   (IF up[s].found = "overloaded" THEN "Server overloaded"
                                                ELSE "Server at capacity")
              /\ CloseCode(up[s].closeReason) = 1013
              /\ wsState[s] \in {"closing", "closed"}
         /\ Refused(s) =>
              /\ \A g \in Gens : s \notin DOMAIN pool[g] /\ <<g, s>> \notin poolObs
              /\ ~up[s].closeObs /\ ~up[s].hb /\ up[s].cleanups = 0)
  /\ [][\A s \in Sockets : Refused(s) => Refused(s)']_vars
\* a client being refused by a pool that another client fills
C11_Witness ==
  \E s, t \in Sockets :
    /\ s # t
    /\ up[s].found = "full" /\ up[s].closeReason = "Server at capacity"
    /\ wsState[s] = "closing"
    /\ t \in DOMAIN pool[up[s].gen]
    /\ Cardinality(DOMAIN pool[up[s].gen]) = MaxConnections

\* an upgrade that the pipeline took on and is still working on or serving
Processing(s) ==
  up[s].pc \in {"resolving", "initializing", "inHandler", "connected", "refusing"}

\* C12: of the upgrades for one URL from one remote address inside one second
\* the pipeline processes at most one. (The clock does not advance under Spec
\* and every socket has the address of ClientOf, so any two upgrades for the
\* same path are such a pair.)
C12_OneUpgradePerWindow ==
  \A s, t \in Sockets :
    (s # t /\ ClientOf(s) = ClientOf(t) /\ up[s].path = up[t].path) =>
      ~(Processing(s) /\ Processing(t))

\* C13: when a client socket's close has been handled, the heartbeat of its
\* connection is no longer armed.
C13_HeartbeatCancelledAtClose ==
  [][\A s \in Sockets :
       (wsState[s] \in {"open", "closing"} /\ wsState'[s] = "closed") => ~up'[s].hb]_vars

\* C14: at most one heartbeat tick finds the socket of a connection not OPEN;
\* that tick sends no ping and leaves the heartbeat cleared.
C14_HeartbeatStopsWithinOneTick ==
  \A s \in Sockets :
    /\ up[s].offTicks <= 1
    /\ ~up[s].offPing
    /\ up[s].offTicks = 1 => ~up[s].hb
\* a connection whose heartbeat ticked once after its socket had closed
C14_Witness ==
  \E s \in Sockets :
    up[s].offTicks = 1 /\ ~up[s].hb /\ wsState[s] = "closed" /\ up[s].pc = "closed"

\* C15: a pending closeWebSocketGracefully call is never older than the close
\* timeout, and one resolved by the timeout left the socket CLOSED or terminated.
C15_GracefulCloseBounded ==
  \A s \in Sockets :
    /\ gc[s].phase = "waiting" => now - gc[s].start <= CloseTimeout
    /\ gc[s].via = "timeout" => (gc[s].terminated \/ wsState[s] = "closed")

\* C16: once an upgrade was rejected because the SOCKET export of its route
\* failed to initialise, the circuit breaker has a failure on record.
C16_FactoryFailureRecorded ==
  factoryFailed # {} => (lastFailureTime # 0 /\ Len(failureWindow) >= 1)

\* C20: when the connection handler of an admitted client has thrown, the
\* error reported is a HandlerExecutionError, the health monitor has counted
\* an error and the client socket is no longer open.
C20_HandlerFailureReported ==
  \A s \in Sockets :
    up[s].pc = "handlerFailed" =>
      /\ up[s].reported = WrapHandlerError("Error")
      /\ health.errorsOccurred >= 1
      /\ wsState[s] \in {"closing", "closed"}

\* C21: the pooled connections of a route with a maxConnections override never
\* outnumber the override.
C21_RouteOverrideBounds ==
  \A r \in RouteOverrides :
    Cardinality({id \in DOMAIN pool[1] : pool[1][id].path = r /\ wsState[id] = "open"})
      <= GetRouteConfigMax(r)

\* C22: once a handler is cached for a pathname, every later call for that
\* pathname finds that same handler until the cache is cleared, and a call
\* that finds a cached handler does not invoke the factory.
C22_CachedHandlerStable ==
  [][/\ \A q \in HandlerPaths :
         (cacheFn[q] # 0 /\ q \in cache') => cacheFn'[q] = cacheFn[q]
     /\ \A s \in Sockets :
         (up[s].pc = "resolving" /\ up[s].path \in cache /\ up'[s].pc # "resolving")
           => factoryCalls' = factoryCalls]_vars

\* C23: when the host server closes after a setup, no upgrade listener stays
\* attached, the handler cache is empty and no WebSocketServer is running;
\* while no listener is attached no raw socket starts an upgrade.
C23_HostCloseDetaches ==
  [][/\ (srv.phase = "listening" /\ srv'.phase = "closed" /\ srv.closeListeners # {}) =>
         /\ srv'.upgradeListeners = {}
         /\ srv'.listenerMap = 0
         /\ cache' = {}
         /\ \A g \in Gens : wsServer'[g] # "running"
     /\ srv.upgradeListeners = {} =>
         \A s \in Sockets : up[s].pc = "idle" => up'[s].pc = "idle"]_vars
\* the host server has closed with a listener attached, a handler cached and
\* a WebSocketServer running a moment before
C23_Witness ==
  /\ srv.phase = "closed"
  /\ srv.closeListeners # {}
  /\ srv.upgradeListeners = {}
  /\ cache = {}
  /\ \E s \in Sockets : up[s].pc = "closed"
  /\ \E g \in Gens : wsServer[g] = "closed"

\* C24: resolvePathToRoute returns, among the entries whose page key ends in
\* "route", the static pattern equal to the path with no parameters if there
\* is one, otherwise the first parameterised pattern in declaration order
\* that matches with the parameters of that match, otherwise no route; and
\* every repetition of a call returns what the first call returned.
C24_ResolutionByPriority ==
  LET t == rt.table
      routes == {i \in 1..Len(t) : EndsWithRoute(t[i].pageKey)}
      statics == {i \in routes : ~IsDynamicPattern(t[i].pattern) /\ t[i].pattern = rt.path}
      dynamics == {i \in routes : IsDynamicPattern(t[i].pattern) /\
                                   MatchPattern(t[i].pattern, rt.path).matched}
      first(S) == CHOOSE i \in S : \A j \in S : i <= j
  IN rt.calls > 0 =>
       /\ rt.same
       /\ IF statics # {}
            THEN rt.ret = [found |-> TRUE, filePath |-> t[first(statics)].pageKey,
                           routeParams |-> {}]
          ELSE IF dynamics # {}
            THEN rt.ret = [found |-> TRUE, filePath |-> t[first(dynamics)].pageKey,
                           routeParams |-> MatchPattern(t[first(dynamics)].pattern,
                                                        rt.path).params]
          ELSE ~rt.ret.found
\* a path resolved twice to a static route declared after a parameterised
\* route that matches it too
C24_Witness ==
  /\ rt.calls = MaxResolveCalls
  /\ rt.path = <<"api", "echo">>
  /\ rt.ret.filePath = <<"api", "echo", "route">>
  /\ Len(rt.table) >= 2
  /\ rt.table[1].pageKey = <<"api", "[id]", "route">>

\* C25: in the loaded configuration every key that the environment sets has
\* the environment's value, and every key of a section of the file config
\* that the environment does not set keeps the file's value.
C25_EnvWinsDeepMerge ==
  LET e == EnvConfig(cfg.env)
      sections == {"security", "monitoring"}
  IN cfg.called =>
       /\ \A k \in DOMAIN e \ sections : k \in DOMAIN cfg.ret /\ cfg.ret[k] = e[k]
       /\ \A sec \in DOMAIN e \cap sections : \A k \in DOMAIN e[sec] :
            /\ sec \in DOMAIN cfg.ret
            /\ k \in DOMAIN cfg.ret[sec]
            /\ cfg.ret[sec][k] = e[sec][k]
       /\ \A sec \in DOMAIN cfg.file \cap sections : \A k \in DOMAIN cfg.file[sec] :
            (sec \notin DOMAIN e \/ k \notin DOMAIN e[sec]) =>
              /\ sec \in DOMAIN cfg.ret
              /\ k \in DOMAIN cfg.ret[sec]
              /\ cfg.ret[sec][k] = cfg.file[sec][k]

\* C26: a broadcast calls send on exactly the pooled sockets that are OPEN and
\* whose path contains the pattern, delivers to those whose send does not
\* throw, and returns the number of those deliveries.
C26_BroadcastReaches ==
  [][bc' # bc =>
       LET targets == {id \in DOMAIN pool[1] :
                         /\ wsState[id] = "open"
                         /\ Includes(Segments(pool[1][id].path), bc'.pattern)}
       IN /\ bc'.result.attempted = targets
          /\ bc'.result.delivered = targets \ bc'.throwers
          /\ bc'.result.sent = Cardinality(targets \ bc'.throwers)]_vars
\* a broadcast whose first send threw and whose second was delivered, while a
\* third pooled socket was left out
C26_Witness ==
  /\ bc.op = "broadcast"
  /\ bc.throwers = {1}
  /\ bc.result.attempted = {1, 2}
  /\ bc.result.delivered = {2}
  /\ bc.result.sent = 1
  /\ Cardinality(DOMAIN pool[1]) = 2

\* C27: a MessageBuffer holds fewer than maxSize messages after every
\* operation; an add flushes exactly when it brings the buffer to maxSize, and
\* that flush hands onFlush the buffered messages followed by the added one,
\* in insertion order, and leaves the buffer empty with no timer armed.
C27_FlushAtMaxSize ==
  /\ Len(mb.buffer) < mb.maxSize
  /\ mb.ret.op = "add" =>
       /\ mb.ret.flushed = (Len(mb.ret.pre) + 1 >= mb.maxSize)
       /\ mb.ret.flushed =>
            /\ mb.ret.out = Append(mb.ret.pre, mb.ret.msg)
            /\ Len(mb.ret.out) = mb.maxSize
            /\ mb.buffer = <<>>
            /\ ~mb.flushTimeout
       /\ ~mb.ret.flushed => MessagesOf(mb.buffer) = Append(mb.ret.pre, mb.ret.msg)
\* the add that filled a buffer of three flushed three messages in order
C27_Witness ==
  /\ mb.ret.op = "add"
  /\ mb.ret.flushed
  /\ mb.maxSize = 3
  /\ mb.ret.out = <<"m1", "m2", "m1">>
  /\ mb.buffer = <<>>

\* C28: getRecoveryStrategy returns close for a WebSocketError whose code is
\* that of RouteNotFound, HandlerNotFound, ServerNotAvailable or
\* ConnectionLimit, and terminate for ModuleImport, HandlerExecution, any
\* other WebSocketError code and any value that is not a WebSocketError; it
\* returns a strategy for every value and the same one on every call.
C28_RecoveryMapping ==
  LET closing == {"ROUTE_NOT_FOUND", "HANDLER_NOT_FOUND", "SERVER_NOT_AVAILABLE",
                  "CONNECTION_LIMIT_EXCEEDED"}
  IN rs.calls > 0 =>
       /\ rs.same
       /\ rs.ret \in {"close", "terminate"}
       /\ rs.ret = "close" <=> (rs.error.ws /\ rs.error.code \in closing)
\* a ConnectionLimitError was mapped twice
C28_Witness ==
  /\ rs.calls = MaxRecoveryCalls
  /\ rs.error = ConnectionLimitError
  /\ rs.ret = "close"
\* a value that is not a WebSocketError but carries the code of one
C28_WitnessForeign ==
  /\ rs.calls > 0
  /\ ~rs.error.ws
  /\ rs.error.code = "ROUTE_NOT_FOUND"
  /\ rs.ret = "terminate"

\* C29: the cleanup function a connection handler returned has run exactly
\* once when the client socket has closed: at the close of a connected socket,
\* and, when the socket closed while the handler was still running, at the
\* moment the handler returns it.
C29_CleanupOnceAfterClose ==
  [][\A s \in Sockets :
       /\ (/\ up[s].pc = "connected" /\ up[s].cleanupFn
           /\ wsState[s] # "closed" /\ wsState'[s] = "closed")
            => up'[s].cleanups = 1
       /\ (/\ up[s].pc = "inHandler" /\ wsState[s] = "closed"
           /\ up'[s].pc = "connected" /\ up'[s].cleanupFn)
            => up'[s].cleanups = 1]_vars

\* C30: an upgrade whose request path matches the pattern of a route for
\* which a connection handler is already cached, under whatever request path
\* of that pattern, takes the cached handler and does not invoke the factory.
C30_CachedUnderPattern ==
  [][\A s \in Sockets :
       (/\ up[s].pc = "resolving"
        /\ ResolveWebSocketRoute(up[s].path).throws = "none"
        /\ \E q \in cache : ResolvePathToRoute(q) = ResolvePathToRoute(up[s].path))
         => up'[s].pc # "initializing" /\ factoryCalls' = factoryCalls]_vars

\* C31: a canExecute call made in OPEN once ResetTimeout has elapsed since
\* the last failure returns true and leaves the breaker HALF_OPEN; a further
\* canExecute call made while the breaker is HALF_OPEN and no outcome has been
\* recorded since that call returns false.
C31_OneProbeInHalfOpen ==
  [][(brRet'.op = "canExecute" /\ now' = now /\ brRet'.at = now) =>
       /\ (brState = OPEN /\ now - lastFailureTime >= ResetTimeout) =>
            (brRet'.result /\ brState' = HALF_OPEN)
       /\ (brState = HALF_OPEN /\ brRet.op = "canExecute") => ~brRet'.result]_vars

\* C32: a recordSuccess made in CLOSED lowers currentFailures by one, not
\* below zero, and the recordFailure or canExecute that follows it starts from
\* the lowered count: canExecute leaves it, recordFailure adds one to it.
C32_SuccessDecayLasts ==
  [][/\ (brRet'.op = "recordSuccess" /\ brRet'.at = now /\ now' = now /\ brState = CLOSED) =>
          currentFailures' = Max(0, currentFailures - 1)
     /\ (brRet.op = "recordSuccess" /\ brRet.pre = CLOSED /\ brRet.at = now /\ now' = now) =>
          /\ brRet'.op = "canExecute" => currentFailures' = currentFailures
          /\ brRet'.op = "recordFailure" => currentFailures' = currentFailures + 1]_vars

\* C33: an upgrade event for a raw socket that the tracker has in flight
\* changes nothing (no rate-limit bucket, no upgrade, no factory call, no
\* cache entry, no client socket, no pool); and when a raw socket has closed,
\* before a handshake or with its client socket, it is no longer in flight.
C33_InFlightIgnored ==
  [][\A s \in Sockets :
       /\ (ev'.n = ev.n + 1 /\ ev'.sock = s /\ up[s].active) =>
            /\ up' = up
            /\ requests' = requests
            /\ admitted' = admitted
            /\ factoryCalls' = factoryCalls
            /\ cache' = cache
            /\ wsState' = wsState
            /\ pool' = pool
       /\ (wsState[s] # "closed" /\ wsState'[s] = "closed") => ~up'[s].active
       /\ (/\ wsState[s] = "none" /\ wsState'[s] = "none"
           /\ up[s].sock = "open" /\ up'[s].sock = "destroyed") => ~up'[s].active]_vars
\* a further upgrade event has reached a socket whose factory call is pending
C33_Witness ==
  /\ ev.n >= 2
  /\ ev.wasActive
  /\ up[ev.sock].pc = "initializing"
  /\ up[ev.sock].active

\* C34: the upgrade event that the rate limiter rejects leaves the raw socket
\* destroyed and out of the in-flight set, with no factory call, cache entry,
\* client socket or pool entry made by that step; afterwards no step of the
\* pipeline is taken for that upgrade and no client socket ever exists for it.
C34_RateRejectedExits ==
  [][\A s \in Sockets :
       /\ (ev'.n = ev.n + 1 /\ ev'.sock = s /\ ~ev'.wasActive /\ ~rlRet'.allowed) =>
            /\ up'[s].pc = "limited"
            /\ up'[s].sock = "destroyed"
            /\ ~up'[s].active
            /\ factoryCalls' = factoryCalls
            /\ cache' = cache
            /\ wsState' = wsState
            /\ pool' = pool
       /\ up[s].pc = "limited" =>
            /\ up'[s].pc = "limited"
            /\ up'[s].sock = "destroyed"
            /\ wsState'[s] = "none"]_vars
\* an upgrade was rejected by the rate limiter while another one is connected
C34_Witness ==
  \E s, t \in Sockets :
    /\ up[s].pc = "limited"
    /\ ev.sock = s
    /\ ~rlRet.allowed
    /\ up[t].pc = "connected"

\* C35: two executeCleanup calls made without force that both ran a strategy
\* started at least CleanupCooldown apart, whoever made them (the monitor or
\* a direct caller); a call that was skipped for the cooldown ran no strategy.
C35_CooldownHolds ==
  \A r1, r2 \in CleanupCalls :
    LET a == mem.runs[r1]
        b == mem.runs[r2]
        ranOne(run) == run.ran \/ run.idx >= 1
    IN /\ (r1 < r2 /\ ~a.force /\ ~b.force /\ ranOne(a) /\ ranOne(b)) =>
            b.start - a.start >= CleanupCooldown
       /\ a.skipped => (~ranOne(a) /\ a.pc = "done")

\* C36: an executeCleanup call that is not skipped selects, from the
\* registered strategies in descending priority, all at critical, those of
\* priority 5 and more at warning, those of priority 3 and more when forced
\* below warning; it runs them in that order, begins no strategy after the
\* heap was found below warning when the one before settled, and ends early
\* only then, a throwing strategy or not.
C36_SelectionAndStop ==
  \A r \in CleanupCalls :
    LET run == mem.runs[r]
        sorted(q) == \A i, j \in 1..Len(q) : i < j => q[i] >= q[j]
    IN /\ sorted(mem.strategies)
       /\ run.pc = "awaiting" =>
            /\ run.selected =
                 (IF run.pct >= MemCritical THEN mem.strategies
                  ELSE IF run.pct >= MemWarning
                    THEN SelectSeq(mem.strategies, LAMBDA q : q >= 5)
                  ELSE SelectSeq(mem.strategies, LAMBDA q : q >= 3))
            /\ run.idx \in 1..Len(run.selected)
       /\ ~run.ranAfterLow
       /\ ~run.leftAtHigh

\* C37: with a health monitor initialised, the monitor's set of active
\* connections is the set of connection ids held by the global pool, whatever
\* sequence of addConnection, socket close or error, removeConnection, pool
\* destroy and initializeConnectionPool has run.
C37_MonitorMatchesPool ==
  health.monitor => hm.activeConnections = DOMAIN pool[hm.globalPool]

\* C38: a rate check of client c on route r is decided by the admitted
\* requests of c on r alone (those of the last WindowMs against the route's
\* maxRequests), and it leaves the buckets of every other client and of every
\* other route as they were.
C38_IsolatedPerRouteAndClient ==
  [][\A r \in LimitedRoutes, c \in Clients :
       (/\ now' = now
        /\ rlRet'.route = r /\ rlRet'.client = c
        /\ (rlRet' # rlRet \/ admitted' # admitted)) =>
         /\ rlRet'.allowed =
              (Len(SeqFilterGT(admitted[r][c], now - WindowMs)) < RouteMaxRequests(r))
         /\ \A r2 \in LimitedRoutes, c2 \in Clients :
              (r2 # r \/ c2 # c) =>
                /\ requests'[r2][c2] = requests[r2][c2]
                /\ admitted'[r2][c2] = admitted[r2][c2]]_vars

\* C38: client 1.2.3.4 is rejected on /api/chat while 5.6.7.8 on the same
\* route and 1.2.3.4 on /api/room have admitted requests in the window
C38_Witness ==
  /\ rlRet = [route |-> "/api/chat", client |-> "1.2.3.4", allowed |-> FALSE]
  /\ Len(requests["/api/chat"]["5.6.7.8"]) = 1
  /\ Len(requests["/api/room"]["1.2.3.4"]) = 1
  /\ Len(requests["/api/chat"]["1.2.3.4"]) = MaxRequests

\* C39: only admitted requests are recorded: within the window a bucket holds
\* exactly the times of the client's admitted requests on the route, never
\* more than maxRequests of them; a step changes a bucket only by dropping
\* times that left the window and by pushing the time of a request it admits;
\* so a check made when fewer than maxRequests admitted requests lie in the
\* window is admitted, however many rejected attempts came before it.
C39_RejectedNotRecorded ==
  /\ [](\A r \in LimitedRoutes, c \in Clients :
          /\ RateTrim(requests[r][c], now) = RateTrim(admitted[r][c], now)
          /\ Len(RateTrim(requests[r][c], now)) <= RouteMaxRequests(r)
          /\ Len(RateTrim(admitted[r][c], now)) < RouteMaxRequests(r) =>
               ~ENABLED (CheckRateLimit(r, c) /\ ~rlRet'.allowed))
  /\ [][now' = now =>
          \A r \in LimitedRoutes, c \in Clients :
            LET trimmed == RateTrim(requests[r][c], now)
                pushed == requests'[r][c] = Append(trimmed, now)
            IN /\ pushed \/ requests'[r][c] \in {requests[r][c], trimmed}
               /\ pushed <=> admitted'[r][c] = Append(admitted[r][c], now)
               /\ pushed => rlRet' = [route |-> r, client |-> c, allowed |-> TRUE]]_vars

\* C39: client 1.2.3.4 filled its bucket on /api/chat at one instant, was
\* rejected, and is admitted again WindowMs later
C39_Witness ==
  LET a == admitted["/api/chat"]["1.2.3.4"]
  IN /\ Len(a) = MaxRequests + 1
     /\ a[MaxRequests] = a[1]
     /\ a[MaxRequests + 1] = a[1] + WindowMs
     /\ now = a[1] + WindowMs
     /\ rlRet = [route |-> "/api/chat", client |-> "1.2.3.4", allowed |-> TRUE]

\* C40: over add, manual flush, timer expiry and destroy in any order, what
\* onFlush is handed followed by what stays buffered is, at every operation,
\* what was buffered followed by the added message (so every message goes to
\* onFlush once, in insertion order); a non-empty buffer always has its flush
\* timer armed; and with the timer left to fire, a non-empty buffer is
\* eventually flushed whether or not anyone calls flush.
C40_DeliveredOnceInOrder ==
  /\ [](mb.buffer # <<>> => mb.flushTimeout)
  /\ [][mb' # mb =>
          LET added == IF mb'.ret.op = "add" THEN <<mb'.ret.msg>> ELSE <<>>
          IN /\ mb'.ret.out \o MessagesOf(mb'.buffer) = MessagesOf(mb.buffer) \o added
             /\ mb'.ret.flushed = (mb'.ret.out # <<>>)]_vars
  /\ (mb.buffer # <<>>) ~> (mb.buffer = <<>> /\ mb.ret.flushed)

\* C40: the timer delivered two buffered messages in the order they were added
C40_Witness ==
  /\ mb.ret.op = "timer"
  /\ mb.ret.out = <<"m2", "m1">>
  /\ mb.buffer = <<>>
  /\ ~mb.flushTimeout

\* C3: every pool holds at most MaxConnections connections, and an
\* addConnection made when the pool already held MaxConnections entries
\* returned false and left the pool as it was.
C3_PoolBounded ==
  /\ \A g \in Gens : Cardinality(DOMAIN pool[g]) <= MaxConnections
  /\ (poolRet.op = "add" /\ Cardinality(DOMAIN poolRet.pre) >= MaxConnections) =>
       (~poolRet.result /\ pool[poolRet.g] = poolRet.pre)
\* an addConnection was refused by a full pool although its socket is open
C3_Witness ==
  /\ poolRet.op = "add"
  /\ ~poolRet.result
  /\ Cardinality(DOMAIN pool[poolRet.g]) = MaxConnections
  /\ poolRet.id \notin DOMAIN pool[poolRet.g]
  /\ wsState[poolRet.id] = "open"

\* C6: an upgrade rejected during admission (rate limit, route resolution,
\* module or handler lookup, factory initialisation) leaves its raw socket
\* neither in the tracker's in-flight set nor in a pool.
C6_NoSocketLeftBehind ==
  \A s \in Sockets :
    up[s].pc \in {"limited", "failed", "rejected"} =>
      /\ ~up[s].active
      /\ \A g \in Gens : s \notin DOMAIN pool[g]

\* C7: an upgrade whose route resolution failed has its raw socket destroyed
\* and no handshake completed.
C7_ResolutionFailureDestroys ==
  \A s \in Sockets :
    up[s].pc = "failed" => (up[s].sock = "destroyed" /\ wsState[s] = "none")

\* C8: an upgrade whose factory call failed is rejected (socket destroyed, no
\* handshake, nothing cached by that call), and so is every upgrade for the
\* route that starts after the failure and before the cache is next cleared.
C8_RejectedUntilReset ==
  \A s \in Sockets :
    /\ up[s].pc = "rejected" => (up[s].sock = "destroyed" /\ wsState[s] = "none")
    /\ up[s].afterFail => (wsState[s] = "none" /\ up[s].pc \notin {"inHandler", "connected"})

\* the timers the runtime arms: heartbeats, graceful-close timeouts, the
\* pools' cleanup and monitoring intervals, the tracker's interval
NoTimerArmed ==
  /\ \A s \in Sockets : ~up[s].hb /\ ~up[s].gto
  /\ \A g \in Gens : ~poolTimer[g]
  /\ timers.perf = 0
  /\ ~timers.tracker

\* C9: when the host server closes, no client socket stays open and no timer
\* of the runtime stays armed.
C9_HostCloseLeavesNothing ==
  [][(srv.phase = "listening" /\ srv'.phase = "closed") =>
       (NoTimerArmed' /\ \A s \in Sockets : wsState'[s] \notin {"open", "closing"})]_vars

\* C10: a setup call made while the host server has its upgrade listener
\* attached changes neither the upgrade listeners, nor the handler cache, nor
\* the shared WebSocketServer handle, nor any client socket.
C10_SecondSetupNoOp ==
  [][(srv.listenerMap # 0 /\ srv'.setups # srv.setups) =>
       /\ srv'.upgradeListeners = srv.upgradeListeners
       /\ srv'.listenerMap = srv.listenerMap
       /\ cache' = cache
       /\ srv'.globalWs = srv.globalWs
       /\ wsServer' = wsServer
       /\ wsState' = wsState]_vars

\* C4: for every (route, client) pair and every window of WindowMs
\* consecutive clock values (t - WindowMs, t], at most MaxRequests of the
\* pair's requests were admitted inside the window.
AdmittedIn(r, c, lo, hi) ==
  Cardinality({i \in DOMAIN admitted[r][c] : admitted[r][c][i] > lo /\ admitted[r][c][i] <= hi})
C4_RateWindowBound ==
  \A k \in RlKeys : \A t \in 1..(RateMaxTime + 1) :
    AdmittedIn(k[1], k[2], t - WindowMs, t) <= MaxRequests
\* a request is rejected for a pair that has been admitted again after its
\* first full window expired
C4_Witness ==
  /\ rlRet.route \in RlRoutes
  /\ ~rlRet.allowed
  /\ Len(admitted[rlRet.route][rlRet.client]) > MaxRequests

\* C17: a CLOSED breaker has fewer than FailureThreshold failures in its
\* window and lets canExecute pass; a recordFailure made in CLOSED opens the
\* breaker exactly when the failures of the monitoring window reach the
\* threshold, and canExecute is refused in OPEN before the reset timeout.
C17_OpensAtThreshold ==
  /\ brState = CLOSED => Len(failureWindow) < FailureThreshold
  /\ (brRet.op = "canExecute" /\ brRet.pre = CLOSED) => (brRet.result /\ brState = CLOSED)
  /\ (brRet.op = "recordFailure" /\ brRet.pre = CLOSED) =>
       /\ \A i \in 1..Len(failureWindow) : failureWindow[i] > brRet.at - MonitoringWindow
       /\ brState = (IF Len(failureWindow) >= FailureThreshold THEN OPEN ELSE CLOSED)
  /\ (brRet.op = "canExecute" /\ brRet.pre = OPEN /\
      brRet.at - brRet.preLast < ResetTimeout) => (~brRet.result /\ brState = OPEN)
\* the failure that reached the threshold has just opened the breaker
C17_Witness ==
  /\ brRet.op = "recordFailure"
  /\ brRet.pre = CLOSED
  /\ brState = OPEN
  /\ Len(failureWindow) = FailureThreshold

\* C18: a HALF_OPEN breaker has counted fewer than SuccessThreshold successes;
\* the recordSuccess that brings the count to the threshold closes the breaker
\* with currentFailures 0, the counter 0 and the window empty, an earlier one
\* leaves it HALF_OPEN.
C18_ClosesAfterSuccesses ==
  /\ brState = HALF_OPEN => consecutiveSuccessesInHalfOpen < SuccessThreshold
  /\ (brRet.op = "recordSuccess" /\ brRet.pre = HALF_OPEN) =>
       IF brRet.preSucc + 1 >= SuccessThreshold
         THEN /\ brState = CLOSED
              /\ currentFailures = 0
              /\ consecutiveSuccessesInHalfOpen = 0
              /\ failureWindow = <<>>
         ELSE /\ brState = HALF_OPEN
              /\ consecutiveSuccessesInHalfOpen = brRet.preSucc + 1
\* the last of SuccessThreshold successes has just closed the breaker
C18_Witness ==
  /\ brRet.op = "recordSuccess"
  /\ brRet.pre = HALF_OPEN
  /\ brRet.preSucc = SuccessThreshold - 1
  /\ brState = CLOSED
  /\ failureWindow = <<>>

\* C19: a recordFailure made in HALF_OPEN leaves the breaker OPEN whatever
\* successes were counted, and canExecute's verdict stays false until
\* ResetTimeout has passed since that failure.
C19_HalfOpenFailureReopens ==
  (brRet.op = "recordFailure" /\ brRet.pre = HALF_OPEN) =>
    /\ brState = OPEN
    /\ lastFailureTime = brRet.at
    /\ \A t \in brRet.at..(brRet.at + ResetTimeout - 1) : ~OpenVerdict(lastFailureTime, t)
\* a failure reopened a HALF_OPEN breaker that had already counted a success
C19_Witness ==
  /\ brRet.op = "recordFailure"
  /\ brRet.pre = HALF_OPEN
  /\ brRet.preSucc >= 1
  /\ brState = OPEN

\* C5: a canExecute call made in state OPEN returns true exactly when
\* ResetTimeout has elapsed since the last recorded failure; when it returns
\* false the breaker stays OPEN, when it returns true it is HALF_OPEN.
C5_OpenBlocksUntilReset ==
  (brRet.op = "canExecute" /\ brRet.pre = OPEN) =>
    /\ brRet.preLast # 0
    /\ brRet.result = (brRet.at - brRet.preLast >= ResetTimeout)
    /\ brState = (IF brRet.result THEN HALF_OPEN ELSE OPEN)
\* canExecute was refused in OPEN at least one tick after the failure, and a
\* later call passed
C5_Witness ==
  /\ brRet.op = "canExecute"
  /\ brRet.pre = OPEN
  /\ brRet.result
  /\ brState = HALF_OPEN
  /\ brRet.at - brRet.preLast = ResetTimeout

====
